---- MODULE Spec2Model ----
(***************************************************************************)
(* Safari Cookies.binarycookies parser (safari.ts): parseBinaryCookies,    *)
(* parsePage, parseCookieRecord, readCString, cocoaToUnix.                  *)
(*                                                                         *)
(* A file is a sequence of bytes 0..255.  Buffer positions are 0-based as  *)
(* in the source; at(buffer, k) is buffer[k].  One action models one step  *)
(* of parseBinaryCookies and of the parsePage call it makes per page.      *)
(***************************************************************************)
EXTENDS Integers, Sequences, FiniteSets, TLC

(***************************************************************************)
(* Bounds of the model.                                                    *)
(***************************************************************************)
\* Largest number of pages a generated file declares and carries.
MaxPages == 2

(***************************************************************************)
(* Numbers.  A u32 is kept exactly below 2^30; a u32 at or above 2^30      *)
(* keeps its low 24 bits and its being at or above 2^30.  Every buffer of   *)
(* the model is far shorter than 2^30 bytes, so every comparison with a    *)
(* length, every index and every low flag bit is the one JavaScript        *)
(* computes on the exact number.                                           *)
(***************************************************************************)
Huge == 2^30

Min(a, b) == IF a <= b THEN a ELSE b

\* a + b of two non-negative numbers, kept at Huge once it reaches Huge
Add(a, b) == IF a >= Huge \/ b >= Huge \/ a + b >= Huge THEN Huge ELSE a + b

\* JavaScript's undefined, the value of buffer[k] for k outside the buffer
Undefined == 0 - 1
\* the RangeError a Buffer read throws, as the value of the read
RangeError == 0 - 2

\* buffer[k]
at(buffer, k) == IF k >= 0 /\ k < Len(buffer) THEN buffer[k + 1] ELSE Undefined

\* buffer.subarray(start, end): both ends clamped to the buffer
subarray(buffer, start, end) ==
    LET s == Min(start, Len(buffer))
        e == Min(end, Len(buffer))
    IN  IF e <= s THEN << >> ELSE SubSeq(buffer, s + 1, e)

\* the number four bytes denote, most significant first
U32(b3, b2, b1, b0) ==
    IF b3 >= 64 THEN Huge + b2 * 65536 + b1 * 256 + b0
    ELSE b3 * 16777216 + b2 * 65536 + b1 * 256 + b0

\* buffer.readUInt32BE(offset): throws when offset .. offset+3 is not in the buffer
readUInt32BE(buffer, offset) ==
    IF at(buffer, offset) = Undefined \/ at(buffer, offset + 3) = Undefined
    THEN RangeError
    ELSE U32(at(buffer, offset), at(buffer, offset + 1),
             at(buffer, offset + 2), at(buffer, offset + 3))

\* buffer.readUInt32LE(offset)
readUInt32LE(buffer, offset) ==
    IF at(buffer, offset) = Undefined \/ at(buffer, offset + 3) = Undefined
    THEN RangeError
    ELSE U32(at(buffer, offset + 3), at(buffer, offset + 2),
             at(buffer, offset + 1), at(buffer, offset))

(***************************************************************************)
(* Text.  A string is the sequence of its code points.                     *)
(***************************************************************************)
\* toString('ascii'): Node clears the top bit of every byte
RECURSIVE toStringAscii(_)
toStringAscii(bytes) ==
    IF bytes = << >> THEN << >>
    ELSE << Head(bytes) % 128 >> \o toStringAscii(Tail(bytes))

\* toString('utf8') over bytes below 0xE0: one byte below 0x80 is itself, a
\* lead byte 0xC2..0xDF with its continuation byte is one code point, any
\* other byte is U+FFFD (65533).  (No generated file holds a lead byte 0xE0..0xF4
\* followed by a continuation byte, the one case this leaves out.)
RECURSIVE toStringUtf8(_)
toStringUtf8(bytes) ==
    IF bytes = << >> THEN << >>
    ELSE LET b == Head(bytes)
         IN  IF b < 128 THEN << b >> \o toStringUtf8(Tail(bytes))
             ELSE IF /\ b >= 194 /\ b <= 223 /\ Len(bytes) >= 2
                     /\ bytes[2] >= 128 /\ bytes[2] <= 191
                  THEN << (b - 192) * 64 + (bytes[2] - 128) >>
                       \o toStringUtf8(Tail(Tail(bytes)))
                  ELSE << 65533 >> \o toStringUtf8(Tail(bytes))

\* "cook"
CookMagic == << 99, 111, 111, 107 >>

(***************************************************************************)
(* readCString, part_010 584-590                                            *)
(***************************************************************************)
\* the loop: the first position at or after end that is outside the buffer
\* or holds 0x00
RECURSIVE scanEnd(_, _)
scanEnd(buffer, end) ==
    IF end < Len(buffer) /\ at(buffer, end) # 0 THEN scanEnd(buffer, end + 1)
    ELSE end

\* readCString taking the byte the loop stopped at into the string
readCStringInclusive(buffer, offset) ==
    toStringUtf8(subarray(buffer, offset, scanEnd(buffer, offset) + 1))

readCString(buffer, offset) ==
    toStringUtf8(subarray(buffer, offset, scanEnd(buffer, offset)))

(***************************************************************************)
(* Numbers of type double.  A double is [cls, neg, ip, frac]:              *)
(*   cls "finite": the value is exactly (neg ? -1 : 1) * (ip + f), with    *)
(*        0 <= f < 1 and frac = (f # 0), ip < 2^30 and no bit below 2^-22, *)
(*        so that adding the epoch offset is exact in double arithmetic;   *)
(*   cls "big": a finite value of magnitude 2^30 or more;                  *)
(*   cls "inexact": any other finite value;                                *)
(*   cls "inf", "nan": the IEEE-754 specials;                              *)
(*   cls "RangeError": the read was outside the buffer and threw.          *)
(***************************************************************************)
Double(cls, neg, ip, frac) == [cls |-> cls, neg |-> neg, ip |-> ip, frac |-> frac]

\* the value of the 8 bytes b[1..8], least significant byte first
DoubleOfBytes(b) ==
    LET neg  == b[8] >= 128
        bexp == (b[8] % 128) * 16 + (b[7] \div 16)
        hi20 == (b[7] % 16) * 65536 + b[6] * 256 + b[5]
        loHi == b[4] * 256 + b[3]
        loLo == b[2] * 256 + b[1]
        e    == bexp - 1023
        \* the low k bits of the 52-bit mantissa are zero
        LowZero(k) ==
            IF k <= 0 THEN TRUE
            ELSE IF k <= 16 THEN loLo % (2^k) = 0
            ELSE IF k <= 32 THEN loLo = 0 /\ loHi % (2^(k - 16)) = 0
            ELSE loLo = 0 /\ loHi = 0 /\ hi20 % (2^(k - 32)) = 0
    IN  IF bexp = 2047
        THEN Double(IF hi20 = 0 /\ loHi = 0 /\ loLo = 0 THEN "inf" ELSE "nan",
                    neg, 0, FALSE)
        ELSE IF bexp = 0
        THEN IF hi20 = 0 /\ loHi = 0 /\ loLo = 0
             THEN Double("finite", neg, 0, FALSE)
             ELSE Double("inexact", neg, 0, TRUE)
        ELSE IF e >= 30 THEN Double("big", neg, 0, FALSE)
        ELSE IF e < 0 - 22 \/ ~LowZero(30 - e) THEN Double("inexact", neg, 0, TRUE)
        ELSE IF e < 0 THEN Double("finite", neg, 0, TRUE)
        ELSE IF e <= 20
        THEN Double("finite", neg, 2^e + (hi20 \div (2^(20 - e))),
                    hi20 % (2^(20 - e)) # 0 \/ loHi # 0 \/ loLo # 0)
        ELSE Double("finite", neg,
                    2^e + hi20 * (2^(e - 20)) + (loHi \div (2^(36 - e))),
                    loHi % (2^(36 - e)) # 0 \/ loLo # 0)

\* buffer.readDoubleLE(offset): throws when offset .. offset+7 is not in the buffer
readDoubleLE(buffer, offset) ==
    IF at(buffer, offset) = Undefined \/ at(buffer, offset + 7) = Undefined
    THEN Double("RangeError", FALSE, 0, FALSE)
    ELSE DoubleOfBytes([k \in 1..8 |-> at(buffer, offset + k - 1)])

(***************************************************************************)
(* cocoaToUnix, part_010 571-579.  A JavaScript number that is the result  *)
(* of Math.floor is [cls, v]: cls "int" with the integer v, or "NaN",      *)
(* "Infinity", "-Infinity", "big" (an integer of magnitude 2^30 or more),  *)
(* "inexact" (the floor of a sum the model does not round).                *)
(***************************************************************************)
COCOA_EPOCH_OFFSET == 978307200

Num(cls, v) == [cls |-> cls, v |-> v]

\* cocoaToUnix with Math.ceil in the place of Math.floor
cocoaToUnixCeil(cocoaTime) ==
    CASE cocoaTime.cls = "finite" ->
           IF cocoaTime.neg
           THEN Num("int", COCOA_EPOCH_OFFSET - cocoaTime.ip)
           ELSE Num("int", cocoaTime.ip + COCOA_EPOCH_OFFSET
                           + (IF cocoaTime.frac THEN 1 ELSE 0))
      [] cocoaTime.cls = "nan" -> Num("NaN", 0)
      [] cocoaTime.cls = "inf" ->
           Num(IF cocoaTime.neg THEN "-Infinity" ELSE "Infinity", 0)
      [] OTHER -> Num(cocoaTime.cls, 0)

cocoaToUnix(cocoaTime) ==
    CASE cocoaTime.cls = "finite" ->
           IF cocoaTime.neg
           THEN Num("int", COCOA_EPOCH_OFFSET - cocoaTime.ip
                           - (IF cocoaTime.frac THEN 1 ELSE 0))
           ELSE Num("int", cocoaTime.ip + COCOA_EPOCH_OFFSET)
      [] cocoaTime.cls = "nan" -> Num("NaN", 0)
      [] cocoaTime.cls = "inf" ->
           Num(IF cocoaTime.neg THEN "-Infinity" ELSE "Infinity", 0)
      [] OTHER -> Num(cocoaTime.cls, 0)

(***************************************************************************)
(* parseCookieRecord, part_010 595-626                                      *)
(***************************************************************************)
\* the reads of lines 610-615 in order; the first that throws ends the call
parseCookieRecordThrows(buffer, recordOffset) ==
    \/ readUInt32LE(buffer, Add(recordOffset, 8)) = RangeError
    \/ readUInt32LE(buffer, Add(recordOffset, 16)) = RangeError
    \/ readUInt32LE(buffer, Add(recordOffset, 20)) = RangeError
    \/ readUInt32LE(buffer, Add(recordOffset, 24)) = RangeError
    \/ readUInt32LE(buffer, Add(recordOffset, 28)) = RangeError
    \/ readDoubleLE(buffer, Add(recordOffset, 40)).cls = "RangeError"

\* parseCookieRecord taking httpOnly from bit 1 of the flags
parseCookieRecordBit1(buffer, recordOffset) ==
    LET flags        == readUInt32LE(buffer, Add(recordOffset, 8))
        domainOffset == readUInt32LE(buffer, Add(recordOffset, 16))
        nameOffset   == readUInt32LE(buffer, Add(recordOffset, 20))
        pathOffset   == readUInt32LE(buffer, Add(recordOffset, 24))
        valueOffset  == readUInt32LE(buffer, Add(recordOffset, 28))
        expiration   == readDoubleLE(buffer, Add(recordOffset, 40))
    IN  [ name     |-> readCString(buffer, Add(recordOffset, nameOffset)),
          value    |-> readCString(buffer, Add(recordOffset, valueOffset)),
          domain   |-> readCString(buffer, Add(recordOffset, domainOffset)),
          path     |-> readCString(buffer, Add(recordOffset, pathOffset)),
          expires  |-> cocoaToUnix(expiration),
          secure   |-> (flags % 2) # 0,
          httpOnly |-> ((flags \div 2) % 2) # 0 ]

\* parseCookieRecord taking the four string offsets from the start of the page
parseCookieRecordPageRelative(buffer, recordOffset) ==
    LET flags        == readUInt32LE(buffer, Add(recordOffset, 8))
        domainOffset == readUInt32LE(buffer, Add(recordOffset, 16))
        nameOffset   == readUInt32LE(buffer, Add(recordOffset, 20))
        pathOffset   == readUInt32LE(buffer, Add(recordOffset, 24))
        valueOffset  == readUInt32LE(buffer, Add(recordOffset, 28))
        expiration   == readDoubleLE(buffer, Add(recordOffset, 40))
    IN  [ name     |-> readCString(buffer, nameOffset),
          value    |-> readCString(buffer, valueOffset),
          domain   |-> readCString(buffer, domainOffset),
          path     |-> readCString(buffer, pathOffset),
          expires  |-> cocoaToUnix(expiration),
          secure   |-> (flags % 2) # 0,
          httpOnly |-> ((flags \div 4) % 2) # 0 ]

\* the cookie of lines 617-625, when no read threw
parseCookieRecord(buffer, recordOffset) ==
    LET flags        == readUInt32LE(buffer, Add(recordOffset, 8))
        domainOffset == readUInt32LE(buffer, Add(recordOffset, 16))
        nameOffset   == readUInt32LE(buffer, Add(recordOffset, 20))
        pathOffset   == readUInt32LE(buffer, Add(recordOffset, 24))
        valueOffset  == readUInt32LE(buffer, Add(recordOffset, 28))
        expiration   == readDoubleLE(buffer, Add(recordOffset, 40))
    IN  [ name     |-> readCString(buffer, Add(recordOffset, nameOffset)),
          value    |-> readCString(buffer, Add(recordOffset, valueOffset)),
          domain   |-> readCString(buffer, Add(recordOffset, domainOffset)),
          path     |-> readCString(buffer, Add(recordOffset, pathOffset)),
          expires  |-> cocoaToUnix(expiration),
          secure   |-> (flags % 2) # 0,
          httpOnly |-> ((flags \div 4) % 2) # 0 ]

(***************************************************************************)
(* toPlaywrightCookie, part_010 785-805                                     *)
(***************************************************************************)
\* toPlaywrightCookie giving httpOnly cookies sameSite "Strict"
toPlaywrightCookieStrict(c) ==
    [ name     |-> c.name,
      value    |-> c.value,
      domain   |-> c.domain,
      path     |-> c.path,
      expires  |-> c.expires,
      secure   |-> c.secure,
      httpOnly |-> c.httpOnly,
      sameSite |-> IF c.httpOnly THEN "Strict"
                   ELSE IF c.secure THEN "None" ELSE "Lax" ]

toPlaywrightCookie(c) ==
    [ name     |-> c.name,
      value    |-> c.value,
      domain   |-> c.domain,
      path     |-> c.path,
      expires  |-> c.expires,
      secure   |-> c.secure,
      httpOnly |-> c.httpOnly,
      sameSite |-> IF c.secure THEN "None" ELSE "Lax" ]

(***************************************************************************)
(* The files the parser is run on.  A file is built as the format lays it  *)
(* out (header, page-size table, pages of records) from a few record and   *)
(* page shapes, then damaged: a foreign or high-bit magic, a declared page *)
(* length that is too large, a cut anywhere, or an 8-byte trailer.         *)
(***************************************************************************)
U32LE(n) == << n % 256, (n \div 256) % 256, (n \div 65536) % 256, n \div 16777216 >>
U32BE(n) == << n \div 16777216, (n \div 65536) % 256, (n \div 256) % 256, n % 256 >>

Zeros(n) == [k \in 1..n |-> 0]

RECURSIVE Flatten(_)
Flatten(seqs) == IF seqs = << >> THEN << >> ELSE Head(seqs) \o Flatten(Tail(seqs))

\* an offset no generated page reaches
FarOffset == 4096

\* the shapes of a record: its strings, flags, expiration bytes, whether its
\* name offset is FarOffset, whether its last string (the value) ends in 0x00
RecordShape(kind) ==
    CASE kind = "ok" ->
           [ domain |-> << 46, 97, 46, 99, 111 >>, name |-> << 115, 105, 100 >>,
             path |-> << 47 >>, value |-> << 97, 98, 99 >>, flags |-> 5,
             expiration |-> << 0, 0, 0, 128, 94, 146, 198, 65 >>,
             farName |-> FALSE, terminated |-> TRUE ]
      [] kind = "plain" ->
           [ domain |-> << 97, 46, 99, 111 >>, name |-> << 116 >>,
             path |-> << 47 >>, value |-> << 120, 121 >>, flags |-> 0,
             expiration |-> Zeros(8),
             farName |-> FALSE, terminated |-> TRUE ]
      [] kind = "badstr" ->
           [ domain |-> << 98, 46, 99, 111 >>, name |-> << 113 >>,
             path |-> << 47 >>, value |-> << 119 >>, flags |-> 1,
             expiration |-> << 0, 0, 0, 0, 0, 0, 248, 63 >>,
             farName |-> TRUE, terminated |-> TRUE ]
      [] kind = "noterm" ->
           [ domain |-> << 99, 46, 99, 111 >>, name |-> << 117 >>,
             path |-> << 47 >>, value |-> << 118 >>, flags |-> 4,
             expiration |-> Zeros(8),
             farName |-> FALSE, terminated |-> FALSE ]
      [] kind = "exact" ->   \* domain "example.com"
           [ domain |-> << 101, 120, 97, 109, 112, 108, 101, 46, 99, 111, 109 >>,
             name |-> << 97 >>, path |-> << 47 >>, value |-> << 49 >>, flags |-> 0,
             expiration |-> Zeros(8),
             farName |-> FALSE, terminated |-> TRUE ]
      [] kind = "dot" ->   \* domain ".example.com"
           [ domain |-> << 46, 101, 120, 97, 109, 112, 108, 101, 46, 99, 111, 109 >>,
             name |-> << 98 >>, path |-> << 47 >>, value |-> << 49 >>, flags |-> 0,
             expiration |-> Zeros(8),
             farName |-> FALSE, terminated |-> TRUE ]
      [] kind = "suffix" ->   \* domain "notexample.com"
           [ domain |-> << 110, 111, 116, 101, 120, 97, 109, 112, 108, 101, 46, 99, 111, 109 >>,
             name |-> << 99 >>, path |-> << 47 >>, value |-> << 49 >>, flags |-> 0,
             expiration |-> Zeros(8),
             farName |-> FALSE, terminated |-> TRUE ]
      [] kind = "sub" ->   \* domain "sub.example.com"
           [ domain |-> << 115, 117, 98, 46, 101, 120, 97, 109, 112, 108, 101, 46, 99, 111, 109 >>,
             name |-> << 100 >>, path |-> << 47 >>, value |-> << 49 >>, flags |-> 0,
             expiration |-> Zeros(8),
             farName |-> FALSE, terminated |-> TRUE ]
      [] kind = "other" ->   \* domain "other.com"
           [ domain |-> << 111, 116, 104, 101, 114, 46, 99, 111, 109 >>,
             name |-> << 101 >>, path |-> << 47 >>, value |-> << 49 >>, flags |-> 0,
             expiration |-> Zeros(8),
             farName |-> FALSE, terminated |-> TRUE ]
      [] kind = "upper" ->   \* domain "Sub.EXAMPLE.com"
           [ domain |-> << 83, 117, 98, 46, 69, 88, 65, 77, 80, 76, 69, 46, 99, 111, 109 >>,
             name |-> << 102 >>, path |-> << 47 >>, value |-> << 49 >>, flags |-> 0,
             expiration |-> Zeros(8),
             farName |-> FALSE, terminated |-> TRUE ]

RecordKinds == { "ok", "plain", "badstr", "noterm",
                 "exact", "dot", "suffix", "sub", "other", "upper" }

\* the bytes of a record: 56 bytes of fixed fields, then the four strings
RecordBytes(kind) ==
    LET r        == RecordShape(kind)
        domOff   == 56
        nameOff  == domOff + Len(r.domain) + 1
        pathOff  == nameOff + Len(r.name) + 1
        valueOff == pathOff + Len(r.path) + 1
        size     == valueOff + Len(r.value) + (IF r.terminated THEN 1 ELSE 0)
    IN  U32LE(size) \o Zeros(4) \o U32LE(r.flags) \o Zeros(4)
        \o U32LE(domOff) \o U32LE(IF r.farName THEN FarOffset ELSE nameOff)
        \o U32LE(pathOff) \o U32LE(valueOff)
        \o Zeros(8) \o r.expiration \o Zeros(8)
        \o r.domain \o << 0 >> \o r.name \o << 0 >> \o r.path \o << 0 >>
        \o r.value \o (IF r.terminated THEN << 0 >> ELSE << >>)

\* A page shape: whether its signature is 0x00000100, its offset entries (a
\* record kind, or "far" for an entry that points at FarOffset and has no
\* record), and by how much its count exceeds its entries.
PageShape(sig, entries, extra) == [ sig |-> sig, entries |-> entries, extra |-> extra ]

\* the count a page with one record declares beyond it
ExtraCount == 20

PageKinds ==
    { PageShape(TRUE, << "ok" >>, 0),
      PageShape(TRUE, << "ok", "plain" >>, 0),
      PageShape(TRUE, << "ok", "far", "plain" >>, 0),
      PageShape(TRUE, << "badstr", "plain" >>, 0),
      PageShape(TRUE, << "noterm", "plain" >>, 0),
      PageShape(FALSE, << "ok" >>, 0),
      PageShape(TRUE, << "plain" >>, ExtraCount),
      PageShape(TRUE, << >>, 0) }

\* the bytes of the records of entries 1..k
RECURSIVE RecordsBytes(_, _)
RecordsBytes(entries, k) ==
    IF k = 0 THEN << >>
    ELSE RecordsBytes(entries, k - 1)
         \o (IF entries[k] = "far" THEN << >> ELSE RecordBytes(entries[k]))

PageBytes(p) ==
    LET n     == Len(p.entries)
        first == 8 + 4 * n
        offs  == [k \in 1..n |->
                    IF p.entries[k] = "far" THEN U32LE(FarOffset)
                    ELSE U32LE(first + Len(RecordsBytes(p.entries, k - 1)))]
    IN  (IF p.sig THEN << 0, 0, 1, 0 >> ELSE << 0, 0, 2, 0 >>)
        \o U32LE(n + p.extra) \o Flatten(offs) \o RecordsBytes(p.entries, n)

Layouts == UNION { [1..n -> PageKinds] : n \in 0..MaxPages }

Magics == { "cook", "high", "xxxx" }

MagicBytes(m) ==
    CASE m = "cook" -> CookMagic
      [] m = "high" -> << 227, 111, 239, 107 >>
      [] m = "xxxx" -> << 120, 120, 120, 120 >>

\* what a declared length is too large by, when it is
Skew == 4

\* the file of a layout: magic, page count, declared lengths (the first one
\* skew too large), the pages
FileBytes(layout, m, skew) ==
    LET n     == Len(layout)
        pages == [k \in 1..n |-> PageBytes(layout[k])]
        sizes == [k \in 1..n |->
                    U32BE(Len(pages[k]) + (IF k = 1 THEN skew ELSE 0))]
    IN  MagicBytes(m) \o U32BE(n) \o Flatten(sizes) \o Flatten(pages)

\* the lengths a file of length full with a header of length header is cut to
Cuts(full, header) ==
    { full, full - 1, full - 40, header + 10, header + 6, header + 2, header,
      header - 1, 6, 3, 0 } \cap 0..full

\* the files
Files ==
    { [ exists |-> FALSE, bytes |-> << >> ] }
    \cup
    { [ exists |-> TRUE, bytes |-> b ] :
        b \in UNION { LET full == FileBytes(layout, ms[1], ms[2])
                      IN  { SubSeq(full, 1, c) :
                              c \in Cuts(Len(full), 8 + 4 * Len(layout)) }
                          \cup { full \o << 7, 7, 7, 7, 7, 7, 7, 7 >> } :
                      layout \in Layouts,
                      ms \in { << "cook", 0 >>, << "cook", Skew >>,
                               << "high", 0 >>, << "xxxx", 0 >> } } }

(***************************************************************************)
(* State                                                                    *)
(***************************************************************************)
VARIABLES
    file,         \* the file at filePath: whether it exists, and its bytes
    pc,           \* where parseBinaryCookies is
    buffer,       \* const buffer = await readFile(filePath)
    pageCount,    \* const pageCount
    pageSizes,    \* const pageSizes: number[]
    pageOffset,   \* let pageOffset
    i,            \* the loop variable of the loop parseBinaryCookies is in
    pageBuffer,   \* parsePage's buffer, the slice of the page being parsed
    cookieCount,  \* parsePage's cookieCount
    j,            \* parsePage's loop variable
    pageCookies,  \* parsePage's cookies
    cookies,      \* parseBinaryCookies' cookies
    result,       \* the promise parseBinaryCookies returned
    pageLog       \* history: for every parsePage call, its slice and how it ended

parserVars == << file, pc, buffer, pageCount, pageSizes, pageOffset, i, pageBuffer,
                 cookieCount, j, pageCookies, cookies, result, pageLog >>

\* one record decoded on its own, and the cookie converted for Playwright
VARIABLES
    record,            \* the buffer parseCookieRecord is given, the record at 0
    step,              \* "record", then "decoded" or "threw", then "converted"
    cookie,            \* what parseCookieRecord returned
    playwrightCookie   \* what toPlaywrightCookie returned

recordVars == << record, step, cookie, playwrightCookie >>

\* calls of importSafariCookies on one file system
VARIABLES
    fs,      \* the file system: for every path, the file there
    calls    \* for every call its options, where it is, and what it holds

importVars == << fs, calls >>

\* one ClaudeBrowser and the commands executed on it
VARIABLES
    browser,     \* this.browser: Null or the handle of the launched browser
    context,     \* this.context: Null or the handle of its context
    page,        \* this.page: Null or the handle of the current page
    made,        \* the number of handles Playwright has made
    launching,   \* where launch() is: "no", or the await it is at
    reply        \* history: the last executeCommand, its outcome, the state before

browserVars == << browser, context, page, made, launching, reply >>

\* ClaudeBrowser objects and the calls of launch(), newPage() and close() in
\* flight on them, made directly or by the tool handlers of the MCP server
VARIABLES
    objects,    \* the ClaudeBrowser objects made: browser, context, page of each
    tasks,      \* the calls and the tool handlers started: where each one is
    closed,     \* the Playwright browsers that a browser.close() has closed
    launched,   \* mcp.ts: let launched
    current     \* mcp.ts: let browser, as the index of the object it is bound to

sessionVars == << objects, tasks, closed, launched, current >>

\* the network listeners of one page
VARIABLES
    requests,          \* the requests the page has made: key, and where each is
    pendingRequests,   \* const pendingRequests = new Map(): key -> entry
    networkEntries,    \* this.networkEntries
    pushed             \* history: every entry pushed to networkEntries, in order

networkVars == << requests, pendingRequests, networkEntries, pushed >>

\* one import command
VARIABLES
    importing,   \* handleImportCommand: its cmd, where it is, what it returned
    jar          \* history: the arguments of the calls of context.addCookies

commandVars == << importing, jar >>

laterVars == << sessionVars, networkVars, commandVars >>

vars == << parserVars, recordVars, importVars, browserVars, laterVars >>

\* null, browser.js 9-11
Null == 0

\* a ClaudeBrowser as its constructor leaves it, browser.js 9-11
NewObject == [ browser |-> Null, context |-> Null, page |-> Null ]

\* the MCP server after its module is loaded, mcp.ts 24-25, no call made
SessionIdle ==
    /\ objects = << NewObject >>
    /\ tasks = << >>
    /\ closed = { }
    /\ launched = FALSE
    /\ current = 1

\* the URLs and the methods of the requests of the page
Urls == { "/a", "/b" }
Methods == { "GET", "POST" }

\* browser.js 181, 185, 207: request.url() + request.method(), written as a
\* pair (for these methods the concatenation has one reading)
RequestKey(url, method) == << url, method >>
Keys == { RequestKey(url, method) : url \in Urls, method \in Methods }

\* pendingRequests.get(key) when the map has no such key
NoEntry == 0

\* a page that has made no request: browser.js 14 and 172
NetworkIdle ==
    /\ requests = << >>
    /\ pendingRequests = [key \in Keys |-> NoEntry]
    /\ networkEntries = << >>
    /\ pushed = << >>

\* no import command
NoImport == [ source |-> "", at |-> "idle", ok |-> FALSE, imported |-> 0, error |-> "" ]

CommandIdle ==
    /\ importing = NoImport
    /\ jar = << >>

LaterIdle == SessionIdle /\ NetworkIdle /\ CommandIdle

\* no executeCommand has ended yet
NoReply ==
    [ cmd |-> "", action |-> "", out |-> "none", ok |-> FALSE, error |-> "",
      before |-> << Null, Null, Null >> ]

\* a ClaudeBrowser as its constructor leaves it, browser.js 9-27
BrowserIdle ==
    /\ browser = Null
    /\ context = Null
    /\ page = Null
    /\ made = 0
    /\ launching = "no"
    /\ reply = NoReply

\* a cookie before there is one
NoCookie ==
    [ name |-> << >>, value |-> << >>, domain |-> << >>, path |-> << >>,
      expires |-> Num("int", 0), secure |-> FALSE, httpOnly |-> FALSE ]

\* no record is being decoded on its own
RecordIdle ==
    /\ record = << >>
    /\ step = "idle"
    /\ cookie = NoCookie
    /\ playwrightCookie = NoCookie

\* importSafariCookies is not called
ImportIdle ==
    /\ fs = << >>
    /\ calls = << >>

\* parseBinaryCookies is not called
ParserIdle ==
    /\ file = [ exists |-> FALSE, bytes |-> << >> ]
    /\ pc = "idle"
    /\ buffer = << >>
    /\ pageCount = 0
    /\ pageSizes = << >>
    /\ pageOffset = 0
    /\ i = 0
    /\ pageBuffer = << >>
    /\ cookieCount = 0
    /\ j = 0
    /\ pageCookies = << >>
    /\ cookies = << >>
    /\ result = [ state |-> "pending", value |-> << >>, error |-> "" ]
    /\ pageLog = << >>

\* what a step of parseBinaryCookies leaves alone
besideParser == << recordVars, importVars, browserVars, laterVars >>

Pending == [ state |-> "pending", value |-> << >>, error |-> "" ]
Fulfilled(v) == [ state |-> "fulfilled", value |-> v, error |-> "" ]
Rejected(e) == [ state |-> "rejected", value |-> << >>, error |-> e ]

Init ==
    /\ file \in Files
    /\ pc = "readFile"
    /\ buffer = << >>
    /\ pageCount = 0
    /\ pageSizes = << >>
    /\ pageOffset = 0
    /\ i = 0
    /\ pageBuffer = << >>
    /\ cookieCount = 0
    /\ j = 0
    /\ pageCookies = << >>
    /\ cookies = << >>
    /\ result = Pending
    /\ pageLog = << >>
    /\ RecordIdle
    /\ ImportIdle
    /\ BrowserIdle
    /\ LaterIdle

\* an exception leaves parseBinaryCookies: the promise is rejected
Throw(e) ==
    /\ pc' = "done"
    /\ result' = Rejected(e)

\* the page signature parsePage expects (line 640)
PAGE_SIGNATURE == 256

\* the entry pageLog gets when the parsePage call of page i ends
PageEntry(end) ==
    [ index |-> i, from |-> Min(pageOffset, Len(buffer)), len |-> Len(pageBuffer),
      end |-> end, cookies |-> pageCookies ]

(***************************************************************************)
(* parseBinaryCookies, part_010 663-697                                     *)
(***************************************************************************)
\* line 664: await readFile(filePath)
ReadFile ==
    /\ pc = "readFile"
    /\ IF file.exists
       THEN /\ buffer' = file.bytes
            /\ pc' = "magic"
            /\ UNCHANGED result
       ELSE /\ Throw("ENOENT")
            /\ UNCHANGED buffer
    /\ UNCHANGED << besideParser, file, pageCount, pageSizes, pageOffset, i, pageBuffer,
                    cookieCount, j, pageCookies, cookies, pageLog >>

\* lines 672-675: the magic
CheckMagic ==
    /\ pc = "magic"
    /\ LET magic == toStringAscii(subarray(buffer, 0, 4))
       IN  IF magic # CookMagic
           THEN Throw("Invalid binarycookies file")
           ELSE /\ pc' = "pageCount"
                /\ UNCHANGED result
    /\ UNCHANGED << besideParser, file, buffer, pageCount, pageSizes, pageOffset, i, pageBuffer,
                    cookieCount, j, pageCookies, cookies, pageLog >>

\* lines 677-678: the page count
ReadPageCount ==
    /\ pc = "pageCount"
    /\ LET n == readUInt32BE(buffer, 4)
       IN  IF n = RangeError
           THEN /\ Throw("RangeError")
                /\ UNCHANGED << pageCount, i >>
           ELSE /\ pageCount' = n
                /\ i' = 0
                /\ pc' = "pageSizes"
                /\ UNCHANGED result
    /\ UNCHANGED << besideParser, file, buffer, pageSizes, pageOffset, pageBuffer,
                    cookieCount, j, pageCookies, cookies, pageLog >>

\* ReadPageSize without the bounds check of the read: a size that is not in
\* the buffer is taken as 0
ReadPageSizeUnchecked ==
    /\ pc = "pageSizes"
    /\ i < pageCount
    /\ LET size == readUInt32BE(buffer, 8 + i * 4)
       IN  pageSizes' = Append(pageSizes, IF size = RangeError THEN 0 ELSE size)
    /\ i' = i + 1
    /\ UNCHANGED << pc, result >>
    /\ UNCHANGED << besideParser, file, buffer, pageCount, pageOffset, pageBuffer,
                    cookieCount, j, pageCookies, cookies, pageLog >>

\* lines 680-682: one turn of the loop that reads the page sizes
ReadPageSize ==
    /\ pc = "pageSizes"
    /\ i < pageCount
    /\ LET size == readUInt32BE(buffer, 8 + i * 4)
       IN  IF size = RangeError
           THEN /\ Throw("RangeError")
                /\ UNCHANGED << pageSizes, i >>
           ELSE /\ pageSizes' = Append(pageSizes, size)
                /\ i' = i + 1
                /\ UNCHANGED << pc, result >>
    /\ UNCHANGED << besideParser, file, buffer, pageCount, pageOffset, pageBuffer,
                    cookieCount, j, pageCookies, cookies, pageLog >>

\* line 685: where the pages start
HeaderDone ==
    /\ pc = "pageSizes"
    /\ i >= pageCount
    /\ pageOffset' = 8 + pageCount * 4
    /\ i' = 0
    /\ pc' = "pages"
    /\ UNCHANGED << besideParser, file, buffer, pageCount, pageSizes, pageBuffer,
                    cookieCount, j, pageCookies, cookies, result, pageLog >>

\* SlicePage refusing a page that reaches beyond the buffer
SlicePageStrict ==
    /\ pc = "pages"
    /\ i < pageCount
    /\ IF Add(pageOffset, pageSizes[i + 1]) > Len(buffer)
       THEN /\ Throw("RangeError")
            /\ UNCHANGED << pageBuffer, pageCookies >>
       ELSE /\ pageBuffer' = subarray(buffer, pageOffset, Add(pageOffset, pageSizes[i + 1]))
            /\ pageCookies' = << >>
            /\ pc' = "signature"
            /\ UNCHANGED result
    /\ UNCHANGED << besideParser, file, buffer, pageCount, pageSizes, pageOffset, i,
                    cookieCount, j, cookies, pageLog >>

\* lines 688-691: the slice of page i, and the call of parsePage on it
SlicePage ==
    /\ pc = "pages"
    /\ i < pageCount
    /\ pageBuffer' = subarray(buffer, pageOffset, Add(pageOffset, pageSizes[i + 1]))
    /\ pageCookies' = << >>
    /\ pc' = "signature"
    /\ UNCHANGED << besideParser, file, buffer, pageCount, pageSizes, pageOffset, i,
                    cookieCount, j, cookies, result, pageLog >>

\* EndPage putting the page's cookies before those of the earlier pages
EndPagePrepends ==
    /\ cookies' = pageCookies \o cookies
    /\ pageOffset' = Add(pageOffset, pageSizes[i + 1])
    /\ i' = i + 1
    /\ pc' = "pages"
    /\ pageLog' = Append(pageLog, PageEntry("returned"))
    /\ UNCHANGED result

\* lines 692-693: cookies.push(...pageCookies); pageOffset += pageSize
EndPage ==
    /\ cookies' = cookies \o pageCookies
    /\ pageOffset' = Add(pageOffset, pageSizes[i + 1])
    /\ i' = i + 1
    /\ pc' = "pages"
    /\ pageLog' = Append(pageLog, PageEntry("returned"))
    /\ UNCHANGED result

\* an exception leaves parsePage, and with it parseBinaryCookies
ThrowInPage ==
    /\ Throw("RangeError")
    /\ pageLog' = Append(pageLog, PageEntry("threw"))
    /\ UNCHANGED << cookies, pageOffset, i >>

\* Return rejecting a file that has bytes other than 0x00 after its last page
ReturnChecksTrailer ==
    /\ pc = "pages"
    /\ i >= pageCount
    /\ result' = IF \E n \in (pageOffset + 1)..Len(buffer) : buffer[n] # 0
                 THEN Rejected("checksum")
                 ELSE Fulfilled(cookies)
    /\ pc' = "done"
    /\ UNCHANGED << besideParser, file, buffer, pageCount, pageSizes, pageOffset, i, pageBuffer,
                    cookieCount, j, pageCookies, cookies, pageLog >>

\* line 696: return cookies
Return ==
    /\ pc = "pages"
    /\ i >= pageCount
    /\ result' = Fulfilled(cookies)
    /\ pc' = "done"
    /\ UNCHANGED << besideParser, file, buffer, pageCount, pageSizes, pageOffset, i, pageBuffer,
                    cookieCount, j, pageCookies, cookies, pageLog >>

(***************************************************************************)
(* parsePage, part_010 631-658                                              *)
(***************************************************************************)
\* CheckSignature throwing on a foreign signature instead of returning
CheckSignatureStrict ==
    /\ pc = "signature"
    /\ LET signature == readUInt32BE(pageBuffer, 0)
       IN  IF signature # PAGE_SIGNATURE
           THEN ThrowInPage
           ELSE /\ pc' = "count"
                /\ UNCHANGED << cookies, pageOffset, i, result, pageLog >>
    /\ UNCHANGED << besideParser, file, buffer, pageCount, pageSizes, pageBuffer,
                    cookieCount, j, pageCookies >>

\* lines 639-643: the signature
CheckSignature ==
    /\ pc = "signature"
    /\ LET signature == readUInt32BE(pageBuffer, 0)
       IN  IF signature = RangeError
           THEN ThrowInPage
           ELSE IF signature # PAGE_SIGNATURE
           THEN EndPage
           ELSE /\ pc' = "count"
                /\ UNCHANGED << cookies, pageOffset, i, result, pageLog >>
    /\ UNCHANGED << besideParser, file, buffer, pageCount, pageSizes, pageBuffer,
                    cookieCount, j, pageCookies >>

\* line 645: the cookie count
ReadCookieCount ==
    /\ pc = "count"
    /\ LET n == readUInt32LE(pageBuffer, 4)
       IN  IF n = RangeError
           THEN /\ ThrowInPage
                /\ UNCHANGED << cookieCount, j >>
           ELSE /\ cookieCount' = n
                /\ j' = 0
                /\ pc' = "records"
                /\ UNCHANGED << cookies, pageOffset, i, result, pageLog >>
    /\ UNCHANGED << besideParser, file, buffer, pageCount, pageSizes, pageBuffer, pageCookies >>

\* line 648, when the read of offset entry j throws: outside the try
OffsetThrows ==
    /\ pc = "records"
    /\ j < cookieCount
    /\ readUInt32LE(pageBuffer, 8 + j * 4) = RangeError
    /\ ThrowInPage
    /\ UNCHANGED << besideParser, file, buffer, pageCount, pageSizes, pageBuffer,
                    cookieCount, j, pageCookies >>

\* RecordDecoded keeping only the cookie decoded last
RecordDecodedReplaces ==
    /\ pc = "records"
    /\ j < cookieCount
    /\ LET recordOffset == readUInt32LE(pageBuffer, 8 + j * 4)
       IN  /\ recordOffset # RangeError
           /\ ~parseCookieRecordThrows(pageBuffer, recordOffset)
           /\ pageCookies' = << parseCookieRecord(pageBuffer, recordOffset) >>
    /\ j' = j + 1
    /\ UNCHANGED << besideParser, file, pc, buffer, pageCount, pageSizes, pageOffset, i, pageBuffer,
                    cookieCount, cookies, result, pageLog >>

\* lines 649-651: the record of offset entry j is decoded and pushed
RecordDecoded ==
    /\ pc = "records"
    /\ j < cookieCount
    /\ LET recordOffset == readUInt32LE(pageBuffer, 8 + j * 4)
       IN  /\ recordOffset # RangeError
           /\ ~parseCookieRecordThrows(pageBuffer, recordOffset)
           /\ pageCookies' = Append(pageCookies, parseCookieRecord(pageBuffer, recordOffset))
    /\ j' = j + 1
    /\ UNCHANGED << besideParser, file, pc, buffer, pageCount, pageSizes, pageOffset, i, pageBuffer,
                    cookieCount, cookies, result, pageLog >>

\* RecordSkipped without the catch: the record's exception leaves parsePage
RecordSkippedAborts ==
    /\ pc = "records"
    /\ j < cookieCount
    /\ LET recordOffset == readUInt32LE(pageBuffer, 8 + j * 4)
       IN  /\ recordOffset # RangeError
           /\ parseCookieRecordThrows(pageBuffer, recordOffset)
    /\ ThrowInPage
    /\ UNCHANGED << besideParser, file, buffer, pageCount, pageSizes, pageBuffer,
                    cookieCount, j, pageCookies >>

\* lines 652-654: parseCookieRecord threw, the catch skips the record
RecordSkipped ==
    /\ pc = "records"
    /\ j < cookieCount
    /\ LET recordOffset == readUInt32LE(pageBuffer, 8 + j * 4)
       IN  /\ recordOffset # RangeError
           /\ parseCookieRecordThrows(pageBuffer, recordOffset)
    /\ j' = j + 1
    /\ UNCHANGED << besideParser, file, pc, buffer, pageCount, pageSizes, pageOffset, i, pageBuffer,
                    cookieCount, pageCookies, cookies, result, pageLog >>

\* line 657: return cookies
PageReturn ==
    /\ pc = "records"
    /\ j >= cookieCount
    /\ EndPage
    /\ UNCHANGED << besideParser, file, buffer, pageCount, pageSizes, pageBuffer,
                    cookieCount, j, pageCookies >>

Next ==
    \/ ReadFile
    \/ CheckMagic
    \/ ReadPageCount
    \/ ReadPageSize
    \/ HeaderDone
    \/ SlicePage
    \/ CheckSignature
    \/ ReadCookieCount
    \/ OffsetThrows
    \/ RecordDecoded
    \/ RecordSkipped
    \/ PageReturn
    \/ Return

Spec == Init /\ [][Next]_vars

\* parseBinaryCookies ends: no step is left to wait for once the file is read
FairSpec == Spec /\ WF_vars(Next)

TypeOK ==
    /\ pc \in { "readFile", "magic", "pageCount", "pageSizes", "pages",
                "signature", "count", "records", "done" }
    /\ result.state \in { "pending", "fulfilled", "rejected" }
    /\ (pc = "done") = (result.state # "pending")

(***************************************************************************)
(* What the format says of a file, read off its bytes b.                   *)
(***************************************************************************)
\* the first four bytes are "cook"
StartsWithCook(b) == Len(b) >= 4 /\ SubSeq(b, 1, 4) = CookMagic

\* the page count N the header declares (the file has at least 8 bytes)
DeclaredPages(b) == readUInt32BE(b, 4)

\* the file holds its 8 + 4*N header bytes
HeaderComplete(b) == Len(b) >= 8 /\ DeclaredPages(b) <= (Len(b) - 8) \div 4

\* the length the header declares for page k, k = 0 .. N-1
DeclaredSize(b, k) == readUInt32BE(b, 8 + 4 * k)

\* where page k starts by the header: after the header and the pages before it
RECURSIVE PageStart(_, _)
PageStart(b, k) ==
    IF k = 0 THEN 8 + 4 * DeclaredPages(b)
    ELSE Add(PageStart(b, k - 1), DeclaredSize(b, k - 1))

\* the bytes of b that page k's declared range [start, start + length) holds
ClippedPage(b, k) ==
    LET from == Min(PageStart(b, k), Len(b))
        to   == Min(Add(PageStart(b, k), DeclaredSize(b, k)), Len(b))
    IN  IF to <= from THEN << >> ELSE [n \in 1..(to - from) |-> b[from + n]]

\* the header and the declared pages together are longer than the file
DeclaredBeyondFile(b) ==
    Add(PageStart(b, DeclaredPages(b) - 1),
        DeclaredSize(b, DeclaredPages(b) - 1)) > Len(b)

\* the slice a pageLog entry is about
SliceOf(e) == IF e.len = 0 THEN << >> ELSE SubSeq(buffer, e.from + 1, e.from + e.len)

\* the first four bytes of a slice are 00 00 01 00
HasSignature(slice) ==
    Len(slice) >= 4 /\ SubSeq(slice, 1, 4) = << 0, 0, 1, 0 >>

\* a slice of at least four bytes that does not start with 00 00 01 00
ForeignSignature(slice) ==
    Len(slice) >= 4 /\ SubSeq(slice, 1, 4) # << 0, 0, 1, 0 >>

(***************************************************************************)
(* C1: parseBinaryCookies fails for every file whose first four bytes are  *)
(* not "cook" (files shorter than four bytes included); it never returns a *)
(* cookie sequence for such a file.                                        *)
(***************************************************************************)
C1_BadMagicFails ==
    (file.exists /\ ~StartsWithCook(file.bytes) /\ pc = "done")
    => result.state = "rejected"

\* a file with the magic that is shorter than the header it declares
HeaderTruncated(b) == StartsWithCook(b) /\ ~HeaderComplete(b)

(***************************************************************************)
(* C2: a file that starts with "cook" and is shorter than its header of    *)
(* 8 + 4*N bytes makes parseBinaryCookies fail: nothing is returned, no    *)
(* page is decoded, and every page size read lies inside the buffer.       *)
(***************************************************************************)
C2_TruncatedHeaderFails ==
    (file.exists /\ HeaderTruncated(file.bytes)) =>
        /\ result.state # "fulfilled"
        /\ pc = "done" => result.state = "rejected"
        /\ pc \in { "readFile", "magic", "pageCount", "pageSizes", "done" }
        /\ pageLog = << >> /\ cookies = << >>
        /\ pageSizes # << >> => 8 + 4 * Len(pageSizes) <= Len(buffer)

\* a truncated header some of whose page sizes were read before the failure
C2_Witness ==
    /\ file.exists /\ HeaderTruncated(file.bytes)
    /\ pc = "done" /\ result.state = "rejected"
    /\ Len(pageSizes) >= 1

(***************************************************************************)
(* C3: for a file with magic "cook" and a complete header,                 *)
(* parseBinaryCookies returns a cookie sequence and never fails, whatever  *)
(* the page and record bytes are.                                          *)
(***************************************************************************)
C3_CompleteHeaderNeverFails ==
    (file.exists /\ StartsWithCook(file.bytes) /\ HeaderComplete(file.bytes)
       /\ pc = "done")
    => result.state = "fulfilled"

\* a complete header, and every page slice has four bytes that are no signature
AllPagesForeign(b) ==
    /\ StartsWithCook(b) /\ HeaderComplete(b)
    /\ \A k \in 0..(DeclaredPages(b) - 1) : ForeignSignature(ClippedPage(b, k))

(***************************************************************************)
(* C4: a page slice whose first four bytes are not 00 00 01 00 contributes *)
(* no cookie and does not fail the parse; decoding goes on with the next   *)
(* page, and a file with a complete header all of whose pages are such     *)
(* slices yields the empty sequence.                                       *)
(***************************************************************************)
C4_ForeignPageIsEmpty ==
    /\ \A n \in 1..Len(pageLog) :
         ForeignSignature(SliceOf(pageLog[n])) =>
            /\ pageLog[n].end = "returned"
            /\ pageLog[n].cookies = << >>
            /\ (n = Len(pageLog) /\ pc = "done") => result.state = "fulfilled"
    /\ (pc = "signature" /\ ForeignSignature(pageBuffer)) => result.state = "pending"
    /\ (file.exists /\ AllPagesForeign(file.bytes) /\ pc = "done")
         => result = Fulfilled(<< >>)

\* a foreign page with records in it was passed over, and the page after it
\* gave its cookies
C4_Witness ==
    /\ pc = "done" /\ result.state = "fulfilled"
    /\ \E n \in 1..(Len(pageLog) - 1) :
         /\ ForeignSignature(SliceOf(pageLog[n]))
         /\ pageLog[n].len > 8
         /\ pageLog[n + 1].cookies # << >>
         /\ result.value = pageLog[n + 1].cookies

(***************************************************************************)
(* C5: a page whose declared length exceeds the bytes that remain after    *)
(* its start is clipped to them, and the parse does not fail for it,       *)
(* however few bytes remain: here the case of fewer than four, zero        *)
(* included.                                                               *)
(***************************************************************************)
C5_ClippedPageDoesNotFail ==
    \A n \in 1..Len(pageLog) :
        LET e == pageLog[n]
        IN  (/\ StartsWithCook(buffer)
             /\ DeclaredSize(buffer, e.index) > Len(buffer) - e.from
             /\ Len(buffer) - e.from < 4)
            => /\ e.len = Len(buffer) - e.from
               /\ e.end = "returned"

(***************************************************************************)
(* C6: if the header size plus the declared page lengths exceeds the file  *)
(* length, decoding fails.                                                 *)
(***************************************************************************)
C6_DeclaredBeyondFileFails ==
    (/\ file.exists /\ StartsWithCook(file.bytes) /\ HeaderComplete(file.bytes)
     /\ DeclaredPages(file.bytes) >= 1 /\ DeclaredBeyondFile(file.bytes)
     /\ pc = "done")
    => result.state = "rejected"

\* the reads parsePage makes outside its try all lie in the slice
PageReadable(slice) ==
    /\ Len(slice) >= 4
    /\ HasSignature(slice) =>
         /\ Len(slice) >= 8
         /\ readUInt32LE(slice, 4) <= (Len(slice) - 8) \div 4

(***************************************************************************)
(* C6 as amended: declared page lengths that reach beyond the file do not  *)
(* fail the parse by themselves.  Every page is decoded over the bytes of  *)
(* its declared range that the file holds, and the parse fails exactly     *)
(* when one of these slices is too short for its signature, its count or   *)
(* its offset table.                                                       *)
(***************************************************************************)
C6_DeclaredBeyondFileIsClipped ==
    (/\ file.exists /\ StartsWithCook(file.bytes) /\ HeaderComplete(file.bytes)
     /\ DeclaredPages(file.bytes) >= 1 /\ DeclaredBeyondFile(file.bytes))
    => /\ \A n \in 1..Len(pageLog) :
            SliceOf(pageLog[n]) = ClippedPage(file.bytes, pageLog[n].index)
       /\ pc \in { "signature", "count", "records" } =>
            pageBuffer = ClippedPage(file.bytes, i)
       /\ pc = "done" =>
            /\ Len(pageLog) >= 1
            /\ (result.state = "rejected") =
                 (\E k \in 0..(DeclaredPages(file.bytes) - 1) :
                     ~PageReadable(ClippedPage(file.bytes, k)))

\* a file cut inside its last page still yields cookies
C6_Witness ==
    /\ file.exists /\ StartsWithCook(file.bytes) /\ HeaderComplete(file.bytes)
    /\ DeclaredPages(file.bytes) >= 1 /\ DeclaredBeyondFile(file.bytes)
    /\ pc = "done" /\ result.state = "fulfilled" /\ result.value # << >>
    /\ Len(pageLog[Len(pageLog)].cookies) >= 1

(***************************************************************************)
(* What the format says of a page slice and of the record at an offset.    *)
(***************************************************************************)
\* the record count M of a slice with a signature and a count
DeclaredRecords(slice) == readUInt32LE(slice, 4)

\* offset entry k of the slice, k = 0, 1, ...
EntryOffset(slice, k) == readUInt32LE(slice, 8 + 4 * k)

\* the number of whole 4-byte offset entries the slice has room for
EntriesThatFit(slice) == IF Len(slice) < 8 THEN 0 ELSE (Len(slice) - 8) \div 4

\* the fixed-width fields of the record, bytes off+8 .. off+47, are in the slice
FieldsInside(slice, off) == Add(off, 48) <= Len(slice)

\* where the string of the offset field at off+field starts
StringStart(slice, off, field) == Add(off, readUInt32LE(slice, Add(off, field)))

\* the offset fields of domain, name, path, value
StringFields == { 16, 20, 24, 28 }

\* all four strings start inside the slice
StringsInside(slice, off) ==
    \A field \in StringFields : StringStart(slice, off, field) < Len(slice)

\* the end of the record's own span: its start plus its size field, bytes 0-3
SpanEnd(slice, off) == Min(Add(off, readUInt32LE(slice, off)), Len(slice))

\* all four strings have their 0x00 inside the record's span
StringsTerminated(slice, off) ==
    \A field \in StringFields :
        \E q \in StringStart(slice, off, field)..(SpanEnd(slice, off) - 1) :
            at(slice, q) = 0

\* whether the format, read one way or another, has the record at off decoded
Keeps(rule, slice, off) ==
    CASE rule = "fields"     -> FieldsInside(slice, off)
      [] rule = "strings"    -> FieldsInside(slice, off) /\ StringsInside(slice, off)
      [] rule = "terminated" -> FieldsInside(slice, off) /\ StringsTerminated(slice, off)

\* the cookies of offset entries 0 .. n-1, in order, of the records kept
RECURSIVE ExpectedCookies(_, _, _)
ExpectedCookies(rule, slice, n) ==
    IF n = 0 THEN << >>
    ELSE ExpectedCookies(rule, slice, n - 1)
         \o (IF Keeps(rule, slice, EntryOffset(slice, n - 1))
             THEN << parseCookieRecord(slice, EntryOffset(slice, n - 1)) >>
             ELSE << >>)

(***************************************************************************)
(* C7: in a page with a valid signature a record whose decoding fails (its *)
(* fixed-width fields lie outside the slice) is the only thing dropped:    *)
(* every other offset entry, before and after, gives its cookie, and the   *)
(* page and the parse go on.  A page is given up only when its slice is    *)
(* too short for its signature, count or offset table.                     *)
(***************************************************************************)
C7_FailedRecordIsDroppedAlone ==
    /\ pc = "records" =>
         /\ result.state = "pending"
         /\ pageCookies = ExpectedCookies("fields", pageBuffer, j)
    /\ \A n \in 1..Len(pageLog) :
         LET slice == SliceOf(pageLog[n])
         IN  /\ (pageLog[n].end = "returned" /\ HasSignature(slice)) =>
                   pageLog[n].cookies =
                       ExpectedCookies("fields", slice, DeclaredRecords(slice))
             /\ pageLog[n].end = "threw" => ~PageReadable(slice)

\* a page of three offset entries whose second record failed gave the cookies
\* of the first and the third
C7_Witness ==
    /\ pc = "done" /\ result.state = "fulfilled"
    /\ \E n \in 1..Len(pageLog) :
         LET slice == SliceOf(pageLog[n])
         IN  /\ HasSignature(slice) /\ Len(slice) >= 20
             /\ DeclaredRecords(slice) = 3
             /\ FieldsInside(slice, EntryOffset(slice, 0))
             /\ ~FieldsInside(slice, EntryOffset(slice, 1))
             /\ FieldsInside(slice, EntryOffset(slice, 2))
             /\ pageLog[n].cookies =
                   << parseCookieRecord(slice, EntryOffset(slice, 0)),
                      parseCookieRecord(slice, EntryOffset(slice, 2)) >>

(***************************************************************************)
(* C8: the record count M is not checked against the slice, and a bad      *)
(* count does not discard valid siblings: when M exceeds the offset        *)
(* entries that fit in the slice, the cookies of the entries that are      *)
(* present and decode are still returned.                                  *)
(***************************************************************************)
C8_OvercountKeepsSiblings ==
    \A n \in 1..Len(pageLog) :
        LET slice == SliceOf(pageLog[n])
        IN  (/\ HasSignature(slice) /\ Len(slice) >= 12
             /\ DeclaredRecords(slice) > EntriesThatFit(slice)
             /\ FieldsInside(slice, EntryOffset(slice, 0)))
            => /\ pageLog[n].end = "returned"
               /\ result.state # "rejected"
               /\ pageLog[n].cookies # << >>
               /\ pageLog[n].cookies[1] = parseCookieRecord(slice, EntryOffset(slice, 0))

(***************************************************************************)
(* C9: a record one of whose four strings starts outside the page slice    *)
(* fails and gives no cookie; the other records of the page are            *)
(* unaffected.                                                             *)
(***************************************************************************)
C9_StringOutsideSliceFailsRecord ==
    pc = "records" => pageCookies = ExpectedCookies("strings", pageBuffer, j)

(***************************************************************************)
(* C10: the four strings of every emitted cookie are null-terminated       *)
(* inside the record's own span; a record with a string that has no 0x00   *)
(* before the end of its span is skipped, and the page goes on.            *)
(***************************************************************************)
C10_UnterminatedStringSkipsRecord ==
    pc = "records" => pageCookies = ExpectedCookies("terminated", pageBuffer, j)

(***************************************************************************)
(* What the format says of a well-formed file: the strings each record     *)
(* stores, record by record and page by page.                               *)
(***************************************************************************)
\* where the string that starts at s ends: its first 0x00
StoredEnd(slice, s) ==
    CHOOSE q \in s..(Len(slice) - 1) :
        at(slice, q) = 0 /\ \A r \in s..(q - 1) : at(slice, r) # 0

\* the bytes of the string of an offset field, as character codes
StoredString(slice, off, field) ==
    LET s == StringStart(slice, off, field)
    IN  [n \in 1..(StoredEnd(slice, s) - s) |-> at(slice, s + n - 1)]

\* the four strings of the record at off
StoredStrings(slice, off) ==
    [ name   |-> StoredString(slice, off, 20),
      value  |-> StoredString(slice, off, 28),
      domain |-> StoredString(slice, off, 16),
      path   |-> StoredString(slice, off, 24) ]

\* the record at off is whole: fields in the slice, strings ASCII and ended
\* by a 0x00 inside the record
WellFormedRecord(slice, off) ==
    /\ FieldsInside(slice, off)
    /\ StringsTerminated(slice, off)
    /\ \A field \in StringFields :
          \A n \in 1..Len(StoredString(slice, off, field)) :
              StoredString(slice, off, field)[n] < 128

\* the page is whole: signature, count, offset table and every record
WellFormedPage(slice) ==
    /\ HasSignature(slice)
    /\ Len(slice) >= 8
    /\ DeclaredRecords(slice) <= EntriesThatFit(slice)
    /\ \A k \in 0..(DeclaredRecords(slice) - 1) :
          WellFormedRecord(slice, EntryOffset(slice, k))

\* the file is whole: magic, header, every declared page in the file
WellFormed(b) ==
    /\ StartsWithCook(b)
    /\ HeaderComplete(b)
    /\ DeclaredPages(b) >= 1 => ~DeclaredBeyondFile(b)
    /\ \A k \in 0..(DeclaredPages(b) - 1) : WellFormedPage(ClippedPage(b, k))

\* the strings of the records of offset entries 0 .. n-1 of a page
RECURSIVE PageStrings(_, _)
PageStrings(slice, n) ==
    IF n = 0 THEN << >>
    ELSE Append(PageStrings(slice, n - 1),
                StoredStrings(slice, EntryOffset(slice, n - 1)))

\* the strings of the records of pages 0 .. k-1 of a file
RECURSIVE FileStrings(_, _)
FileStrings(b, k) ==
    IF k = 0 THEN << >>
    ELSE FileStrings(b, k - 1)
         \o PageStrings(ClippedPage(b, k - 1), DeclaredRecords(ClippedPage(b, k - 1)))

\* the sum of the record counts of pages 0 .. k-1
RECURSIVE TotalRecords(_, _)
TotalRecords(b, k) ==
    IF k = 0 THEN 0
    ELSE TotalRecords(b, k - 1) + DeclaredRecords(ClippedPage(b, k - 1))

\* the name, value, domain and path of a cookie
StringsOf(c) ==
    [ name |-> c.name, value |-> c.value, domain |-> c.domain, path |-> c.path ]

(***************************************************************************)
(* C11: for a well-formed file parseBinaryCookies returns one cookie per   *)
(* record-offset entry: as many cookies as the pages' record counts add up *)
(* to, in file order, each with the name, value, domain and path stored in *)
(* its record; a file of one page with one record gives one cookie.        *)
(***************************************************************************)
C11_OneCookiePerRecord ==
    (file.exists /\ WellFormed(file.bytes) /\ pc = "done")
    => /\ result.state = "fulfilled"
       /\ Len(result.value) = TotalRecords(file.bytes, DeclaredPages(file.bytes))
       /\ [n \in 1..Len(result.value) |-> StringsOf(result.value[n])]
            = FileStrings(file.bytes, DeclaredPages(file.bytes))
       /\ (/\ DeclaredPages(file.bytes) = 1
           /\ DeclaredRecords(ClippedPage(file.bytes, 0)) = 1)
          => Len(result.value) = 1

\* a well-formed file of two pages with three records was parsed
C11_Witness ==
    /\ file.exists /\ WellFormed(file.bytes) /\ pc = "done"
    /\ DeclaredPages(file.bytes) = 2
    /\ TotalRecords(file.bytes, 2) = 3
    /\ Len(result.value) = 3
    /\ result.value[1].name # result.value[3].name

(***************************************************************************)
(* One record decoded on its own and converted for Playwright:             *)
(* parseCookieRecord (part_010 595-626) on a buffer that holds one record  *)
(* at offset 0, then toPlaywrightCookie (785-805) on the cookie.           *)
(***************************************************************************)
\* the low byte and the three high bytes of the flags the records carry
FlagLowBytes == 0..7 \cup { 8, 16, 250, 251, 254, 255 }
FlagHighBytes == { << 0, 0, 0 >>, << 255, 255, 255 >>, << 2, 0, 128 >> }

\* the expirations the records carry: the eight bytes of the double and the
\* value they are the IEEE-754 encoding of, the fraction num/den or a special
ExpirationCases ==
    { [ bytes |-> << 0, 0, 0, 128, 94, 146, 198, 65 >>, kind |-> "number",
        num |-> 757382400, den |-> 1 ],
      [ bytes |-> << 0, 0, 0, 0, 0, 0, 0, 0 >>, kind |-> "number",
        num |-> 0, den |-> 1 ],
      [ bytes |-> << 0, 0, 0, 0, 0, 0, 0, 128 >>, kind |-> "number",
        num |-> 0, den |-> 1 ],
      [ bytes |-> << 0, 0, 0, 0, 0, 0, 248, 63 >>, kind |-> "number",
        num |-> 3, den |-> 2 ],
      [ bytes |-> << 0, 0, 0, 0, 0, 0, 248, 191 >>, kind |-> "number",
        num |-> 0 - 3, den |-> 2 ],
      [ bytes |-> << 0, 0, 0, 0, 0, 0, 224, 191 >>, kind |-> "number",
        num |-> 0 - 1, den |-> 2 ],
      [ bytes |-> << 0, 0, 0, 0, 0, 24, 245, 64 >>, kind |-> "number",
        num |-> 86400, den |-> 1 ],
      [ bytes |-> << 0, 0, 0, 64, 228, 39, 205, 193 >>, kind |-> "number",
        num |-> 0 - 978307200, den |-> 1 ],
      [ bytes |-> << 0, 0, 64, 64, 228, 39, 205, 193 >>, kind |-> "number",
        num |-> 0 - 1956614401, den |-> 2 ],
      [ bytes |-> << 0, 0, 0, 0, 0, 0, 248, 127 >>, kind |-> "NaN",
        num |-> 0, den |-> 1 ],
      [ bytes |-> << 0, 0, 0, 0, 0, 0, 240, 127 >>, kind |-> "Infinity",
        num |-> 0, den |-> 1 ],
      [ bytes |-> << 0, 0, 0, 0, 0, 0, 240, 255 >>, kind |-> "-Infinity",
        num |-> 0, den |-> 1 ] }

\* a record with these flag and expiration bytes and the strings of a shape
RecordWith(flagBytes, expiration, kind) ==
    LET r        == RecordShape(kind)
        domOff   == 56
        nameOff  == domOff + Len(r.domain) + 1
        pathOff  == nameOff + Len(r.name) + 1
        valueOff == pathOff + Len(r.path) + 1
        size     == valueOff + Len(r.value) + 1
    IN  U32LE(size) \o Zeros(4) \o flagBytes \o Zeros(4)
        \o U32LE(domOff) \o U32LE(nameOff) \o U32LE(pathOff) \o U32LE(valueOff)
        \o Zeros(8) \o expiration \o Zeros(8)
        \o r.domain \o << 0 >> \o r.name \o << 0 >> \o r.path \o << 0 >>
        \o r.value \o << 0 >>

\* the lengths a record is cut to: inside its expiration, inside its offsets
RecordCuts == { 44, 18 }

\* the buffers parseCookieRecord is run on
Records ==
    LET whole == { RecordWith(<< low >> \o high, e.bytes, kind) :
                     low \in FlagLowBytes, high \in FlagHighBytes,
                     e \in ExpirationCases, kind \in { "ok", "plain" } }
    IN  whole
        \cup { SubSeq(RecordWith(<< 5, 0, 0, 0 >>, Zeros(8), "ok"), 1, c) :
                 c \in RecordCuts }

RecordInit ==
    /\ record \in Records
    /\ step = "record"
    /\ cookie = NoCookie
    /\ playwrightCookie = NoCookie
    /\ ParserIdle
    /\ ImportIdle
    /\ BrowserIdle
    /\ LaterIdle

\* what a step on the one record leaves alone
besideRecord == << parserVars, importVars, browserVars, laterVars >>

\* lines 610-625: the record is decoded
DecodeRecord ==
    /\ step = "record"
    /\ ~parseCookieRecordThrows(record, 0)
    /\ cookie' = parseCookieRecord(record, 0)
    /\ step' = "decoded"
    /\ UNCHANGED << besideRecord, record, playwrightCookie >>

\* lines 610-615: a read outside the buffer throws
DecodeThrows ==
    /\ step = "record"
    /\ parseCookieRecordThrows(record, 0)
    /\ step' = "threw"
    /\ UNCHANGED << besideRecord, record, cookie, playwrightCookie >>

\* lines 794-804: the cookie is converted
Convert ==
    /\ step = "decoded"
    /\ playwrightCookie' = toPlaywrightCookie(cookie)
    /\ step' = "converted"
    /\ UNCHANGED << besideRecord, record, cookie >>

RecordNext ==
    \/ DecodeRecord
    \/ DecodeThrows
    \/ Convert

RecordSpec == RecordInit /\ [][RecordNext]_vars

\* bit n of the flags field, bytes 8-11 of the record, least significant first
FlagBit(b, n) == (b[9 + n \div 8] \div (2 ^ (n % 8))) % 2 = 1

(***************************************************************************)
(* C12: for every 32-bit flags value the decoded cookie is secure exactly  *)
(* when bit 0 of the flags is set and httpOnly exactly when bit 2 is set,  *)
(* whatever the other bits are: 0x05 gives both, 0x00 neither, 0x01 only   *)
(* secure, 0x04 only httpOnly.                                              *)
(***************************************************************************)
C12_FlagBits ==
    step \in { "decoded", "converted" }
    => /\ cookie.secure = FlagBit(record, 0)
       /\ cookie.httpOnly = FlagBit(record, 2)
       /\ SubSeq(record, 9, 12) = << 5, 0, 0, 0 >> => cookie.secure /\ cookie.httpOnly
       /\ SubSeq(record, 9, 12) = << 0, 0, 0, 0 >> => ~cookie.secure /\ ~cookie.httpOnly
       /\ SubSeq(record, 9, 12) = << 1, 0, 0, 0 >> => cookie.secure /\ ~cookie.httpOnly
       /\ SubSeq(record, 9, 12) = << 4, 0, 0, 0 >> => ~cookie.secure /\ cookie.httpOnly

\* flags 0xFFFFFFFB, every bit but bit 2: secure and not httpOnly
C12_Witness ==
    /\ step = "decoded"
    /\ SubSeq(record, 9, 12) = << 251, 255, 255, 255 >>
    /\ cookie.secure
    /\ ~cookie.httpOnly

\* the expiration the record carries
ExpirationOf(b) == CHOOSE e \in ExpirationCases : e.bytes = SubSeq(b, 41, 48)

C19_ConvertCopiesAndSetsSameSite ==
    /\ step = "decoded" => ENABLED Convert
    /\ step = "converted" =>
         /\ playwrightCookie.name = cookie.name
         /\ playwrightCookie.value = cookie.value
         /\ playwrightCookie.domain = cookie.domain
         /\ playwrightCookie.path = cookie.path
         /\ playwrightCookie.expires = cookie.expires
         /\ playwrightCookie.secure = cookie.secure
         /\ playwrightCookie.httpOnly = cookie.httpOnly
         /\ (playwrightCookie.sameSite = "None") = cookie.secure
         /\ (playwrightCookie.sameSite = "Lax") = ~cookie.secure
         /\ playwrightCookie.sameSite # "Strict"
         /\ DOMAIN playwrightCookie
              = { "name", "value", "domain", "path", "expires", "secure",
                  "httpOnly", "sameSite" }

\* an httpOnly cookie that is not secure was converted: sameSite is "Lax"
C19_Witness ==
    /\ step = "converted"
    /\ cookie.httpOnly /\ ~cookie.secure
    /\ playwrightCookie.httpOnly
    /\ playwrightCookie.sameSite = "Lax"

(***************************************************************************)
(* parsePage and parseBinaryCookies as functions of the buffer: what the   *)
(* steps above compute from pc "magic" to "done", in one piece.  A call of *)
(* importSafariCookies runs them without a break once its file is read.    *)
(***************************************************************************)
\* the outcome of parsePage: it threw, or it returned cookies
PageOutcome(threw, cs) == [ threw |-> threw, cookies |-> cs ]

\* lines 647-655 from entry k on, the cookies pushed so far being acc
RECURSIVE parsePageFrom(_, _, _, _)
parsePageFrom(pageBuf, count, k, acc) ==
    IF k >= count THEN PageOutcome(FALSE, acc)
    ELSE LET recordOffset == readUInt32LE(pageBuf, 8 + k * 4)
         IN  IF recordOffset = RangeError THEN PageOutcome(TRUE, << >>)
             ELSE IF parseCookieRecordThrows(pageBuf, recordOffset)
             THEN parsePageFrom(pageBuf, count, k + 1, acc)
             ELSE parsePageFrom(pageBuf, count, k + 1,
                                Append(acc, parseCookieRecord(pageBuf, recordOffset)))

\* lines 631-658
parsePage(pageBuf) ==
    LET signature == readUInt32BE(pageBuf, 0)
    IN  IF signature = RangeError THEN PageOutcome(TRUE, << >>)
        ELSE IF signature # PAGE_SIGNATURE THEN PageOutcome(FALSE, << >>)
        ELSE LET count == readUInt32LE(pageBuf, 4)
             IN  IF count = RangeError THEN PageOutcome(TRUE, << >>)
                 ELSE parsePageFrom(pageBuf, count, 0, << >>)

\* lines 680-682 from size k on: the page sizes, or << RangeError >>
RECURSIVE readPageSizes(_, _, _, _)
readPageSizes(buf, count, k, acc) ==
    IF k >= count THEN acc
    ELSE LET size == readUInt32BE(buf, 8 + k * 4)
         IN  IF size = RangeError THEN << RangeError >>
             ELSE readPageSizes(buf, count, k + 1, Append(acc, size))

\* lines 687-694 from page k on
RECURSIVE parsePagesFrom(_, _, _, _, _)
parsePagesFrom(buf, sizes, k, offset, acc) ==
    IF k > Len(sizes) THEN Fulfilled(acc)
    ELSE LET outcome == parsePage(subarray(buf, offset, Add(offset, sizes[k])))
         IN  IF outcome.threw THEN Rejected("RangeError")
             ELSE parsePagesFrom(buf, sizes, k + 1, Add(offset, sizes[k]),
                                 acc \o outcome.cookies)

\* lines 666-696, the buffer being what readFile gave
parseBinaryCookies(buf) ==
    IF toStringAscii(subarray(buf, 0, 4)) # CookMagic
    THEN Rejected("Invalid binarycookies file")
    ELSE LET count == readUInt32BE(buf, 4)
         IN  IF count = RangeError THEN Rejected("RangeError")
             ELSE LET sizes == readPageSizes(buf, count, 0, << >>)
                  IN  IF sizes = << RangeError >> THEN Rejected("RangeError")
                      ELSE parsePagesFrom(buf, sizes, 1, 8 + count * 4, << >>)

\* the steps and the function agree on every file
StepsAgree ==
    (pc = "done" /\ file.exists) => result = parseBinaryCookies(file.bytes)

(***************************************************************************)
(* importSafariCookies, part_010 751-780, called MaxCalls times on one     *)
(* file system that does not change.  A call runs to its first await (the  *)
(* readFile of parseBinaryCookies) in one piece, the parse in one piece    *)
(* once the file is read, and the filter after the await of line 763; the  *)
(* calls interleave at these points.                                        *)
(***************************************************************************)
\* the calls made
MaxCalls == 2
Calls == 1..MaxCalls

\* an optional string argument
NotGiven == [ given |-> FALSE, v |-> << >> ]
Given(v) == [ given |-> TRUE, v |-> v ]

\* JavaScript truthiness of an optional string: given and not empty
Truthy(opt) == opt.given /\ opt.v # << >>

\* lines 702-720: the path of the cookie file of a profile, as the directory
\* under the home directory, the profile's own directory, and the file
getSafariCookiesPath(profile) ==
    IF Truthy(profile)
    THEN [ dir |-> "Library/Containers/com.apple.Safari/Data/Library/WebKit/WebsiteDataStore",
           profile |-> profile.v,
           file |-> "Cookies/Cookies.binarycookies" ]
    ELSE [ dir |-> "Library/Containers/com.apple.Safari/Data/Library",
           profile |-> << >>,
           file |-> "Cookies/Cookies.binarycookies" ]

\* String.prototype.toLowerCase on the characters the model has: ASCII and
\* Latin-1 capitals move down by 32, every other character stays
toLowerCase(str) ==
    [n \in 1..Len(str) |->
        IF str[n] \in 65..90 \/ (str[n] \in 192..222 /\ str[n] # 215)
        THEN str[n] + 32 ELSE str[n]]

\* String.prototype.endsWith
endsWith(str, suffix) ==
    /\ Len(suffix) <= Len(str)
    /\ SubSeq(str, Len(str) - Len(suffix) + 1, Len(str)) = suffix

\* the filter callback with a substring test in the place of endsWith
domainMatchesAnywhere(c, domainFilter) ==
    LET cookieDomain == toLowerCase(c.domain)
    IN  \E k \in 0..(Len(cookieDomain) - Len(domainFilter)) :
            SubSeq(cookieDomain, k + 1, k + Len(domainFilter)) = domainFilter

\* lines 768-776: the filter callback
domainMatches(c, domainFilter) ==
    LET cookieDomain == toLowerCase(c.domain)
    IN  \/ cookieDomain = domainFilter
        \/ cookieDomain = << 46 >> \o domainFilter
        \/ endsWith(cookieDomain, << 46 >> \o domainFilter)

\* the filter giving the retained cookies with their domain in lower case
RECURSIVE filterByDomainLowered(_, _)
filterByDomainLowered(cs, domainFilter) ==
    IF cs = << >> THEN << >>
    ELSE (IF domainMatches(Head(cs), domainFilter)
          THEN << [Head(cs) EXCEPT !.domain = toLowerCase(@)] >> ELSE << >>)
         \o filterByDomainLowered(Tail(cs), domainFilter)

\* Array.prototype.filter with the callback of lines 768-776
RECURSIVE filterByDomain(_, _)
filterByDomain(cs, domainFilter) ==
    IF cs = << >> THEN << >>
    ELSE (IF domainMatches(Head(cs), domainFilter) THEN << Head(cs) >> ELSE << >>)
         \o filterByDomain(Tail(cs), domainFilter)

\* the profiles the calls are made with: none, "Work"
DefaultProfile == NotGiven
WorkProfile == Given(<< 87, 111, 114, 107 >>)
Profiles == { DefaultProfile, WorkProfile }

\* the option objects of the calls: a profile and a domain filter
Options(profile, domain) == [ profile |-> profile, domain |-> domain ]
OptionSets ==
    { Options(DefaultProfile, NotGiven),
      Options(DefaultProfile, Given(<< 101, 120, 97, 109, 112, 108, 101, 46, 99, 111, 109 >>)),    \* "example.com"
      Options(DefaultProfile, Given(<< 69, 88, 65, 77, 80, 76, 69, 46, 99, 111, 109 >>)),    \* "EXAMPLE.com"
      Options(WorkProfile, NotGiven),
      Options(WorkProfile, Given(<< >>)),                     \* ""
      Options(WorkProfile, Given(<< 111, 116, 104, 101, 114, 46, 99, 111, 109 >>)) }        \* "other.com"

Paths == { getSafariCookiesPath(p) : p \in Profiles }

\* the cookie files of the file systems
MissingFile == [ exists |-> FALSE, bytes |-> << >> ]
DomainsFile ==
    [ exists |-> TRUE,
      bytes |-> FileBytes(<< PageShape(TRUE, << "exact", "dot", "suffix" >>, 0),
                             PageShape(TRUE, << "sub", "other", "upper" >>, 0) >>,
                          "cook", 0) ]
ThreeFile ==
    [ exists |-> TRUE,
      bytes |-> FileBytes(<< PageShape(TRUE, << "exact", "dot", "sub" >>, 0) >>, "cook", 0) ]
OtherFile ==
    [ exists |-> TRUE,
      bytes |-> FileBytes(<< PageShape(TRUE, << "other", "ok" >>, 0) >>, "cook", 0) ]
ForeignFile ==
    [ exists |-> TRUE, bytes |-> FileBytes(<< >>, "xxxx", 0) ]
CutFile ==
    [ exists |-> TRUE,
      bytes |-> SubSeq(FileBytes(<< PageShape(TRUE, << "exact" >>, 0) >>, "cook", 0), 1, 10) ]

\* the file systems: what is at the default path and at the profile's path
FileSystems ==
    { [p \in Paths |-> IF p = getSafariCookiesPath(NotGiven) THEN pair[1] ELSE pair[2]] :
        pair \in { << MissingFile, DomainsFile >>, << DomainsFile, OtherFile >>,
                    << ForeignFile, CutFile >>, << DomainsFile, DomainsFile >>,
                    << ThreeFile, ThreeFile >> } }

\* fs.existsSync
existsSync(path) == fs[path].exists

\* a call before it is made
NewCall(options) ==
    [ options |-> options, at |-> "start", read |-> FALSE, buffer |-> << >>,
      parsed |-> Pending, returned |-> Pending ]

ImportInit ==
    /\ fs \in FileSystems
    /\ calls \in [Calls -> { NewCall(o) : o \in OptionSets }]
    /\ ParserIdle
    /\ RecordIdle
    /\ BrowserIdle
    /\ LaterIdle

\* what a step of importSafariCookies leaves alone
besideImport == << parserVars, recordVars, browserVars, laterVars >>

\* ImportCall without the existence check of lines 757-761
ImportCallUnchecked(c) ==
    /\ calls[c].at = "start"
    /\ calls' = [calls EXCEPT ![c].at = "readFile"]
    /\ UNCHANGED << besideImport, fs >>

\* lines 754-763 up to the await: the path, the existence check, and the
\* call of parseBinaryCookies up to its readFile
ImportCall(c) ==
    /\ calls[c].at = "start"
    /\ LET cookiesPath == getSafariCookiesPath(calls[c].options.profile)
       IN  IF ~existsSync(cookiesPath)
           THEN calls' = [calls EXCEPT ![c].at = "done",
                                       ![c].returned = Rejected("Safari cookies file not found")]
           ELSE calls' = [calls EXCEPT ![c].at = "readFile"]
    /\ UNCHANGED << besideImport, fs >>

\* line 664: readFile completes, with the bytes of the file or with ENOENT
ImportReadFile(c) ==
    /\ calls[c].at = "readFile"
    /\ LET f == fs[getSafariCookiesPath(calls[c].options.profile)]
       IN  IF f.exists
           THEN calls' = [calls EXCEPT ![c].at = "parse", ![c].read = TRUE,
                                       ![c].buffer = f.bytes]
           ELSE calls' = [calls EXCEPT ![c].at = "filter", ![c].read = TRUE,
                                       ![c].parsed = Rejected("ENOENT")]
    /\ UNCHANGED << besideImport, fs >>

\* ImportParse on the buffer read last by any call, as if the buffer were
\* a variable of the module
ImportParseShared(c) ==
    /\ calls[c].at = "parse"
    /\ LET last == CHOOSE d \in Calls :
                      /\ calls[d].read /\ calls[d].buffer # << >>
                      /\ \A e \in Calls :
                            (calls[e].read /\ calls[e].buffer # << >>) => e <= d
       IN  calls' = [calls EXCEPT ![c].at = "filter",
                                  ![c].parsed = parseBinaryCookies(calls[last].buffer)]
    /\ UNCHANGED << besideImport, fs >>

\* ImportParse pushing onto one cookies array that all the calls share
ImportParseAccumulates(c) ==
    /\ calls[c].at = "parse"
    /\ LET own    == parseBinaryCookies(calls[c].buffer)
           before == IF \E d \in Calls : calls[d].parsed.state = "fulfilled"
                     THEN calls[CHOOSE d \in Calls :
                                  calls[d].parsed.state = "fulfilled"].parsed.value
                     ELSE << >>
       IN  calls' = [calls EXCEPT ![c].at = "filter",
                                  ![c].parsed = IF own.state = "rejected" THEN own
                                                ELSE Fulfilled(before \o own.value)]
    /\ UNCHANGED << besideImport, fs >>

\* lines 666-696: the call's buffer is parsed
ImportParse(c) ==
    /\ calls[c].at = "parse"
    /\ calls' = [calls EXCEPT ![c].at = "filter",
                              ![c].parsed = parseBinaryCookies(calls[c].buffer)]
    /\ UNCHANGED << besideImport, fs >>

\* ImportReturn dropping the first cookie when no filter is given
ImportReturnTail(c) ==
    /\ calls[c].at = "filter"
    /\ LET parsed  == calls[c].parsed
           domain  == calls[c].options.domain
           cs      == IF Truthy(domain)
                      THEN filterByDomain(parsed.value, toLowerCase(domain.v))
                      ELSE IF parsed.value = << >> THEN << >> ELSE Tail(parsed.value)
       IN  calls' = [calls EXCEPT ![c].at = "done",
                                  ![c].returned = IF parsed.state = "rejected"
                                                  THEN parsed ELSE Fulfilled(cs)]
    /\ UNCHANGED << besideImport, fs >>

\* lines 763-779: the await ends; a rejection is passed on, the cookies are
\* filtered when a domain is given, and returned
ImportReturn(c) ==
    /\ calls[c].at = "filter"
    /\ LET parsed  == calls[c].parsed
           domain  == calls[c].options.domain
           cs      == IF Truthy(domain)
                      THEN filterByDomain(parsed.value, toLowerCase(domain.v))
                      ELSE parsed.value
       IN  calls' = [calls EXCEPT ![c].at = "done",
                                  ![c].returned = IF parsed.state = "rejected"
                                                  THEN parsed ELSE Fulfilled(cs)]
    /\ UNCHANGED << besideImport, fs >>

ImportNext ==
    \E c \in Calls :
        \/ ImportCall(c)
        \/ ImportReadFile(c)
        \/ ImportParse(c)
        \/ ImportReturn(c)

ImportSpec == ImportInit /\ [][ImportNext]_vars

(***************************************************************************)
(* What the documentation says of a call, read off its options and the     *)
(* file system.                                                             *)
(***************************************************************************)
\* the path a call resolves
PathOf(c) == getSafariCookiesPath(calls[c].options.profile)

\* a letter as its capital
Capital(ch) == IF ch \in 97..122 THEN ch - 32 ELSE ch

\* two strings are equal when case is ignored
SameIgnoringCase(a, b) ==
    Len(a) = Len(b) /\ \A n \in 1..Len(a) : Capital(a[n]) = Capital(b[n])

\* the domain is f, or is f after a prefix that ends in "."
Retained(domain, f) ==
    \E k \in 0..Len(domain) :
        /\ k = 0 \/ domain[k] = 46
        /\ SameIgnoringCase(SubSeq(domain, k + 1, Len(domain)), f)

\* the cookies a filter retains, in their order
RetainedOf(cs, f) == SelectSeq(cs, LAMBDA ck : Retained(ck.domain, f))

\* the domains of a sequence of cookies
DomainsOf(cs) == [n \in 1..Len(cs) |-> cs[n].domain]

(***************************************************************************)
(* C14: with a domain filter f importSafariCookies retains a cookie        *)
(* exactly when, case ignored, its domain is f, is "." and f, or ends with *)
(* "." and f.  A file with example.com, .example.com and sub.example.com   *)
(* gives all three for example.com and none for other.com.                 *)
(***************************************************************************)
C14_FilterRetainsDomainAndSubdomains ==
    \A c \in Calls :
        (/\ calls[c].at = "done"
         /\ Truthy(calls[c].options.domain)
         /\ calls[c].parsed.state = "fulfilled")
        => LET f == calls[c].options.domain.v
           IN  /\ calls[c].returned
                    = Fulfilled(RetainedOf(calls[c].parsed.value, f))
               /\ fs[PathOf(c)] = ThreeFile =>
                    /\ f = << 101, 120, 97, 109, 112, 108, 101, 46, 99, 111, 109 >>
                         => Len(calls[c].returned.value) = 3
                    /\ f = << 111, 116, 104, 101, 114, 46, 99, 111, 109 >>
                         => calls[c].returned.value = << >>

\* the six-cookie file was filtered by "EXAMPLE.com": four cookies are kept,
\* notexample.com and other.com are dropped
C14_Witness ==
    \E c \in Calls :
        /\ calls[c].at = "done"
        /\ calls[c].options.domain = Given(<< 69, 88, 65, 77, 80, 76, 69, 46, 99, 111, 109 >>)
        /\ Len(calls[c].parsed.value) = 6
        /\ DomainsOf(calls[c].returned.value)
             = << << 101, 120, 97, 109, 112, 108, 101, 46, 99, 111, 109 >>,
                  << 46, 101, 120, 97, 109, 112, 108, 101, 46, 99, 111, 109 >>,
                  << 115, 117, 98, 46, 101, 120, 97, 109, 112, 108, 101, 46, 99, 111, 109 >>,
                  << 83, 117, 98, 46, 69, 88, 65, 77, 80, 76, 69, 46, 99, 111, 109 >> >>

(***************************************************************************)
(* C15: without a domain filter importSafariCookies returns exactly what   *)
(* parseBinaryCookies produced for the file: the same cookies in the same  *)
(* order, none dropped and none added.                                      *)
(***************************************************************************)
C15_NoFilterReturnsTheParse ==
    \A c \in Calls :
        (/\ calls[c].at = "done"
         /\ ~Truthy(calls[c].options.domain)
         /\ fs[PathOf(c)].exists)
        => /\ calls[c].returned = calls[c].parsed
           /\ calls[c].parsed = parseBinaryCookies(fs[PathOf(c)].bytes)

\* a call without a filter returned the six cookies of its file
C15_Witness ==
    \E c \in Calls :
        /\ calls[c].at = "done"
        /\ ~calls[c].options.domain.given
        /\ calls[c].returned.state = "fulfilled"
        /\ Len(calls[c].returned.value) = 6
        /\ DomainsOf(calls[c].returned.value)[3] = << 110, 111, 116, 101, 120, 97, 109, 112, 108, 101, 46, 99, 111, 109 >>

(***************************************************************************)
(* C16: when the resolved path does not exist importSafariCookies fails    *)
(* with the file-not-found error, and the check comes before any read or   *)
(* parse: the call never reads the file and never parses.                   *)
(***************************************************************************)
C16_MissingFileFailsBeforeAnyRead ==
    \A c \in Calls :
        ~fs[PathOf(c)].exists
        => /\ calls[c].at \in { "start", "done" }
           /\ ~calls[c].read
           /\ calls[c].buffer = << >>
           /\ calls[c].parsed = Pending
           /\ calls[c].at = "done"
                => calls[c].returned = Rejected("Safari cookies file not found")

\* a call on a missing file has failed
C16_Witness ==
    \E c \in Calls :
        /\ ~fs[PathOf(c)].exists
        /\ calls[c].at = "done"
        /\ calls[c].returned.state = "rejected"
        /\ ~calls[c].read

Alone(c) ==
    IF ~fs[PathOf(c)].exists THEN Rejected("Safari cookies file not found")
    ELSE LET parsed == parseBinaryCookies(fs[PathOf(c)].bytes)
             domain == calls[c].options.domain
         IN  IF parsed.state = "rejected" \/ ~Truthy(domain) THEN parsed
             ELSE Fulfilled(RetainedOf(parsed.value, domain.v))

(***************************************************************************)
(* C18: concurrent calls of importSafariCookies, on different files or on  *)
(* the same unchanged file, are safe: under every interleaving each call   *)
(* returns what it would return alone.                                      *)
(***************************************************************************)
C18_ConcurrentCallsReturnAsAlone ==
    \A c \in Calls : calls[c].at = "done" => calls[c].returned = Alone(c)

\* a call has returned the cookies of its file while another call holds the
\* bytes of a different file it has read and not yet parsed
C18_Witness ==
    \E c, d \in Calls :
        /\ calls[c].at = "done"
        /\ calls[c].returned.state = "fulfilled"
        /\ calls[c].returned.value # << >>
        /\ calls[d].at = "parse"
        /\ calls[d].buffer # calls[c].buffer
        /\ calls[d].buffer # << >>

(***************************************************************************)
(* ClaudeBrowser, browser.js: launch (29-45), close (220-227), ensurePage  *)
(* (228-233) and executeCommand (704-902).  A handle is the number of the  *)
(* object Playwright made.  A call into Playwright, the image library or   *)
(* the cookie import either succeeds or throws.  A command runs in one     *)
(* piece; launch is three awaits, and commands run between them.           *)
(***************************************************************************)
\* the handles Playwright makes at most
MaxHandles == 5

\* whether the library call a command makes succeeds
LibraryOutcomes == { "ok", "throws" }

\* the messages of the errors, lines 230 and 309, and 503-528 and 676
NotLaunchedCallLaunch == "Browser not launched. Call launch() first."
NotLaunched == "Browser not launched"
LibraryError == "library error"

\* what the promise of executeCommand settles with
Returned(ok, error) == [ out |-> "returned", ok |-> ok, error |-> error ]
Threw(error) == [ out |-> "threw", ok |-> FALSE, error |-> error ]

\* the commands whose method starts with ensurePage() and is awaited in
\* the try of executeCommand
PageCommands ==
    { "goto", "click", "type", "query", "screenshot", "url", "html", "back",
      "forward", "reload", "wait", "eval" }
MorePageCommands ==
    { "metrics", "a11y", "hover", "select", "keys", "upload", "scroll",
      "viewport", "emulate" }

\* the commands that read a log of the ClaudeBrowser
LogCommands == { "console", "network", "errors" }

\* the commands of the image library
ImageCommands == { "favicon", "convert", "resize", "crop", "compress", "thumbnail" }

\* the state a command finds
StateNow == << browser, context, page >>

\* the command has ended with outcome o
Replied(cmd, action, o) ==
    reply' = [ cmd |-> cmd, action |-> action, out |-> o.out, ok |-> o.ok,
               error |-> o.error, before |-> StateNow ]

\* what a step of the ClaudeBrowser leaves alone
besideBrowser == << parserVars, recordVars, importVars, laterVars >>

BrowserInit ==
    /\ BrowserIdle
    /\ ParserIdle
    /\ RecordIdle
    /\ ImportIdle
    /\ LaterIdle

\* line 30: launch() is called and webkit.launch gives the browser
LaunchBrowser ==
    /\ launching = "no"
    /\ made < MaxHandles
    /\ browser' = made + 1
    /\ made' = made + 1
    /\ launching' = "context"
    /\ UNCHANGED << besideBrowser, context, page, reply >>

\* lines 31-36: browser.newContext gives the context
LaunchContext ==
    /\ launching = "context"
    /\ browser # Null
    /\ made < MaxHandles
    /\ context' = made + 1
    /\ made' = made + 1
    /\ launching' = "page"
    /\ UNCHANGED << besideBrowser, browser, page, reply >>

\* lines 37-41: context.newPage gives the page
LaunchPage ==
    /\ launching = "page"
    /\ context # Null
    /\ made < MaxHandles
    /\ page' = made + 1
    /\ made' = made + 1
    /\ launching' = "no"
    /\ UNCHANGED << besideBrowser, browser, context, reply >>

\* lines 30-37: an await of launch() throws, or reads a field that a close
\* has set to null: launch() is left with what it had assigned
LaunchFails ==
    /\ launching # "no"
    /\ launching' = "no"
    /\ UNCHANGED << besideBrowser, browser, context, page, made, reply >>

\* lines 707-750, 759-762, 790-797, 804-831: a command whose method starts with
\* ensurePage(), awaited in the try
ExecutePageCommand(cmd, lib) ==
    /\ cmd \in PageCommands \cup MorePageCommands
    /\ Replied(cmd, "",
               IF page = Null THEN Returned(FALSE, NotLaunchedCallLaunch)
               ELSE IF lib = "throws" THEN Returned(FALSE, LibraryError)
               ELSE Returned(TRUE, ""))
    /\ UNCHANGED << besideBrowser, browser, context, page, made, launching >>

\* lines 751-754 and 307-316: newpage
ExecuteNewPage(lib) ==
    /\ IF context = Null
       THEN /\ Replied("newpage", "", Returned(FALSE, NotLaunchedCallLaunch))
            /\ UNCHANGED << page, made >>
       ELSE IF lib = "throws"
       THEN /\ Replied("newpage", "", Returned(FALSE, LibraryError))
            /\ UNCHANGED << page, made >>
       ELSE /\ made < MaxHandles
            /\ page' = made + 1
            /\ made' = made + 1
            /\ Replied("newpage", "", Returned(TRUE, ""))
    /\ UNCHANGED << besideBrowser, browser, context, launching >>

\* close leaving the page handle in its field
ExecuteCloseKeepsPage(lib) ==
    /\ IF browser = Null
       THEN /\ Replied("close", "", Returned(TRUE, ""))
            /\ UNCHANGED << browser, context, page >>
       ELSE IF lib = "throws"
       THEN /\ Replied("close", "", Returned(FALSE, LibraryError))
            /\ UNCHANGED << browser, context, page >>
       ELSE /\ browser' = Null
            /\ context' = Null
            /\ UNCHANGED page
            /\ Replied("close", "", Returned(TRUE, ""))
    /\ UNCHANGED << besideBrowser, made, launching >>

\* lines 755-758 and 220-227: close
ExecuteClose(lib) ==
    /\ IF browser = Null
       THEN /\ Replied("close", "", Returned(TRUE, ""))
            /\ UNCHANGED << browser, context, page >>
       ELSE IF lib = "throws"
       THEN /\ Replied("close", "", Returned(FALSE, LibraryError))
            /\ UNCHANGED << browser, context, page >>
       ELSE /\ browser' = Null
            /\ context' = Null
            /\ page' = Null
            /\ Replied("close", "", Returned(TRUE, ""))
    /\ UNCHANGED << besideBrowser, made, launching >>

\* lines 763-770, 786-789: console, network, errors
ExecuteLogCommand(cmd) ==
    /\ cmd \in LogCommands
    /\ Replied(cmd, "", Returned(TRUE, ""))
    /\ UNCHANGED << besideBrowser, browser, context, page, made, launching >>

\* lines 771-785: intercept; hasPattern is whether cmd.pattern is given
ExecuteIntercept(action, hasPattern, lib) ==
    /\ action \in { "list", "clear", "block", "mock" }
    /\ Replied("intercept", action,
               IF action = "list" THEN Returned(TRUE, "")
               ELSE IF action # "clear" /\ ~hasPattern
               THEN Returned(FALSE, "Pattern required for block/mock actions")
               ELSE IF page = Null THEN Returned(FALSE, NotLaunchedCallLaunch)
               ELSE IF lib = "throws" THEN Returned(FALSE, LibraryError)
               ELSE Returned(TRUE, ""))
    /\ UNCHANGED << besideBrowser, browser, context, page, made, launching >>

\* lines 798-799 and 600-620: dialog
ExecuteDialog(action) ==
    /\ action \in { "status", "accept", "dismiss", "config", "other" }
    /\ Replied("dialog", action,
               IF action = "other" THEN Returned(FALSE, "Unknown dialog action")
               ELSE Returned(TRUE, ""))
    /\ UNCHANGED << besideBrowser, browser, context, page, made, launching >>

\* lines 800-801, 621-646 and 500-530: cookies.  The promise of
\* handleCookiesCommand is returned without an await, so its rejection
\* is the rejection of executeCommand; hasArgs is whether name (and value)
\* are given
ExecuteCookies(action, hasArgs, lib) ==
    /\ action \in { "get", "set", "delete", "clear", "other" }
    /\ Replied("cookies", action,
               IF action = "other" THEN Returned(FALSE, "Unknown cookies action")
               ELSE IF action = "set" /\ ~hasArgs
               THEN Returned(FALSE, "Name and value required")
               ELSE IF action = "delete" /\ ~hasArgs
               THEN Returned(FALSE, "Name required")
               ELSE IF context = Null THEN Threw(NotLaunched)
               ELSE IF action = "set" /\ page = Null THEN Threw(NotLaunchedCallLaunch)
               ELSE IF lib = "throws" THEN Threw(LibraryError)
               ELSE Returned(TRUE, ""))
    /\ UNCHANGED << besideBrowser, browser, context, page, made, launching >>

\* lines 802-803, 647-672 and 531-556: storage, returned without an await
\* as well; hasArgs is whether key (and value) are given
ExecuteStorage(action, hasArgs, lib) ==
    /\ action \in { "get", "set", "delete", "clear", "other" }
    /\ Replied("storage", action,
               IF action = "other" THEN Returned(FALSE, "Unknown storage action")
               ELSE IF action = "set" /\ ~hasArgs
               THEN Returned(FALSE, "Key and value required")
               ELSE IF action = "delete" /\ ~hasArgs
               THEN Returned(FALSE, "Key required")
               ELSE IF page = Null THEN Threw(NotLaunchedCallLaunch)
               ELSE IF lib = "throws" THEN Threw(LibraryError)
               ELSE Returned(TRUE, ""))
    /\ UNCHANGED << besideBrowser, browser, context, page, made, launching >>

\* lines 891-892 and 673-703: import, returned without an await as well;
\* lib is whether importSafariCookies and addCookies succeed
ExecuteImport(source, lib) ==
    /\ source \in { "safari", "other" }
    /\ Replied("import", source,
               IF context = Null THEN Threw(NotLaunched)
               ELSE IF source # "safari"
               THEN Returned(FALSE, "Unknown import source")
               ELSE IF lib = "throws" THEN Threw(LibraryError)
               ELSE Returned(TRUE, ""))
    /\ UNCHANGED << besideBrowser, browser, context, page, made, launching >>

\* lines 832-890: the commands of the image library, awaited in the try
ExecuteImageCommand(cmd, lib) ==
    /\ cmd \in ImageCommands
    /\ Replied(cmd, "",
               IF lib = "throws" THEN Returned(FALSE, LibraryError)
               ELSE Returned(TRUE, ""))
    /\ UNCHANGED << besideBrowser, browser, context, page, made, launching >>

\* lines 893-896: any other command
ExecuteUnknown ==
    /\ Replied("unknown", "", Returned(FALSE, "Unknown command"))
    /\ UNCHANGED << besideBrowser, browser, context, page, made, launching >>

BrowserNext ==
    \/ LaunchBrowser
    \/ LaunchContext
    \/ LaunchPage
    \/ LaunchFails
    \/ \E cmd \in PageCommands \cup MorePageCommands, lib \in LibraryOutcomes :
          ExecutePageCommand(cmd, lib)
    \/ \E lib \in LibraryOutcomes : ExecuteNewPage(lib)
    \/ \E lib \in LibraryOutcomes : ExecuteClose(lib)
    \/ \E cmd \in LogCommands : ExecuteLogCommand(cmd)
    \/ \E action \in { "list", "clear", "block", "mock" }, hasPattern \in BOOLEAN,
          lib \in LibraryOutcomes : ExecuteIntercept(action, hasPattern, lib)
    \/ \E action \in { "status", "accept", "dismiss", "config", "other" } :
          ExecuteDialog(action)
    \/ \E action \in { "get", "set", "delete", "clear", "other" }, hasArgs \in BOOLEAN,
          lib \in LibraryOutcomes : ExecuteCookies(action, hasArgs, lib)
    \/ \E action \in { "get", "set", "delete", "clear", "other" }, hasArgs \in BOOLEAN,
          lib \in LibraryOutcomes : ExecuteStorage(action, hasArgs, lib)
    \/ \E source \in { "safari", "other" }, lib \in LibraryOutcomes :
          ExecuteImport(source, lib)
    \/ \E cmd \in ImageCommands, lib \in LibraryOutcomes : ExecuteImageCommand(cmd, lib)
    \/ ExecuteUnknown

BrowserSpec == BrowserInit /\ [][BrowserNext]_vars

\* the command found a ClaudeBrowser with browser, context and page all null
FoundNotLaunched == reply.before = << Null, Null, Null >>

\* the error says that the browser is not launched
SaysNotLaunched(error) == error \in { NotLaunchedCallLaunch, NotLaunched }

\* on a ClaudeBrowser that is not launched the page commands and newpage
\* return ok false with the not-launched error and change nothing
NotLaunchedCommandsFail ==
    (/\ reply.out # "none"
     /\ FoundNotLaunched
     /\ reply.cmd \in PageCommands \cup { "newpage" })
    => /\ reply.out = "returned"
       /\ ~reply.ok
       /\ SaysNotLaunched(reply.error)

\* and they leave browser, context and page as they are
NotLaunchedCommandsChangeNothing ==
    [][(/\ reply' # reply
        /\ StateNow = << Null, Null, Null >>
        /\ reply'.cmd \in PageCommands \cup { "newpage" })
       => UNCHANGED << browser, context, page >>]_vars

(***************************************************************************)
(* C20: executeCommand never throws; on a ClaudeBrowser that is not        *)
(* launched (or is closed) every page command and newpage returns ok false *)
(* with an error that says "Browser not launched", and browser, context    *)
(* and page stay null.                                                      *)
(***************************************************************************)
C20_ExecuteCommandNeverThrows ==
    /\ reply.out # "threw"
    /\ NotLaunchedCommandsFail

\* the commands whose rejection leaves executeCommand: cookies, storage and
\* import, and in no other way
OnlyUnawaitedCommandsThrow ==
    reply.out = "threw" => reply.cmd \in { "cookies", "storage", "import" }

(***************************************************************************)
(* What the format says of a string: the run of bytes from its start to    *)
(* the first 0x00, or to the end of the page slice.                         *)
(***************************************************************************)
\* where the run that starts at s ends
RunEnd(slice, s) ==
    IF s >= Len(slice) THEN s
    ELSE IF \E q \in s..(Len(slice) - 1) : at(slice, q) = 0
    THEN CHOOSE q \in s..(Len(slice) - 1) :
             at(slice, q) = 0 /\ \A r \in s..(q - 1) : at(slice, r) # 0
    ELSE Len(slice)

\* the bytes of the run
RunBytes(slice, s) == [n \in 1..(RunEnd(slice, s) - s) |-> at(slice, s + n - 1)]

\* the four strings of the record at off, each the decoded run of its field
RunStrings(slice, off) ==
    [ name   |-> toStringUtf8(RunBytes(slice, StringStart(slice, off, 20))),
      value  |-> toStringUtf8(RunBytes(slice, StringStart(slice, off, 28))),
      domain |-> toStringUtf8(RunBytes(slice, StringStart(slice, off, 16))),
      path   |-> toStringUtf8(RunBytes(slice, StringStart(slice, off, 24))) ]

\* the strings of the records of entries 0 .. n-1 whose fields are in the slice
RECURSIVE PageRunStrings(_, _)
PageRunStrings(slice, n) ==
    IF n = 0 THEN << >>
    ELSE PageRunStrings(slice, n - 1)
         \o (IF FieldsInside(slice, EntryOffset(slice, n - 1))
             THEN << RunStrings(slice, EntryOffset(slice, n - 1)) >>
             ELSE << >>)

\* the strings of a sequence of cookies
StringsOfAll(cs) == [n \in 1..Len(cs) |-> StringsOf(cs[n])]

\* no string of the cookie holds the character U+0000
NoZeroIn(c) ==
    \A str \in { c.name, c.value, c.domain, c.path } :
        \A n \in 1..Len(str) : str[n] # 0

(***************************************************************************)
(* C22: each string field of a record is the decoded run of bytes from     *)
(* recordOffset + fieldOffset up to, not including, the first 0x00 at or   *)
(* after it, or up to the end of the page slice when there is none; the    *)
(* scan stays in the slice and no decoded string holds a 0x00.             *)
(***************************************************************************)
C22_StringIsRunToFirstZero ==
    /\ pc = "records" =>
         /\ StringsOfAll(pageCookies) = PageRunStrings(pageBuffer, j)
         /\ \A n \in 1..Len(pageCookies) : NoZeroIn(pageCookies[n])
         /\ \A k \in 0..(j - 1), field \in StringFields :
              FieldsInside(pageBuffer, EntryOffset(pageBuffer, k)) =>
                LET s == StringStart(pageBuffer, EntryOffset(pageBuffer, k), field)
                IN  scanEnd(pageBuffer, s) <= Len(pageBuffer) \/ scanEnd(pageBuffer, s) = s
    /\ \A n \in 1..Len(pageLog) :
         (pageLog[n].end = "returned" /\ HasSignature(SliceOf(pageLog[n]))) =>
           StringsOfAll(pageLog[n].cookies)
             = PageRunStrings(SliceOf(pageLog[n]), DeclaredRecords(SliceOf(pageLog[n])))

\* a page was decoded whose last string has no 0x00 before the end of the
\* slice: the value runs to the last byte of the slice
C22_Witness ==
    /\ pc = "done"
    /\ result.state = "fulfilled"
    /\ \E n \in 1..Len(pageLog) :
         LET slice == SliceOf(pageLog[n])
             cs    == pageLog[n].cookies
         IN  /\ cs # << >>
             /\ HasSignature(slice)
             /\ slice[Len(slice)] # 0
             /\ cs[Len(cs)].value # << >>
             /\ \E k \in 0..(DeclaredRecords(slice) - 1) :
                  LET off == EntryOffset(slice, k)
                  IN  /\ FieldsInside(slice, off)
                      /\ StringStart(slice, off, 28) < Len(slice)
                      /\ RunEnd(slice, StringStart(slice, off, 28)) = Len(slice)
                      /\ cs[Len(cs)].value
                           = toStringUtf8(RunBytes(slice, StringStart(slice, off, 28)))

(***************************************************************************)
(* Positions in the file: page k by the header, a record by its entry in   *)
(* the page's offset table, a string by its offset field in the record.    *)
(***************************************************************************)
\* the first e bytes of b
Prefix(b, e) == SubSeq(b, 1, Min(e, Len(b)))

\* where page k ends in the file
PageEnd(b, k) == Min(Add(PageStart(b, k), DeclaredSize(b, k)), Len(b))

\* where record m of page k starts in the file: page start + table entry
RecordStart(b, k, m) ==
    Add(PageStart(b, k), readUInt32LE(b, PageStart(b, k) + 8 + 4 * m))

\* where a string of that record starts in the file: record start + offset field
FieldStart(b, k, m, field) ==
    Add(RecordStart(b, k, m), readUInt32LE(b, Add(RecordStart(b, k, m), field)))

\* the string read in the file from there to the first 0x00 or the page's end
FieldString(b, k, m, field) ==
    toStringUtf8(RunBytes(Prefix(b, PageEnd(b, k)), FieldStart(b, k, m, field)))

\* the strings of the records 0 .. n-1 of page k whose fixed fields are in the page
RECURSIVE PageFieldStrings(_, _, _)
PageFieldStrings(b, k, n) ==
    IF n = 0 THEN << >>
    ELSE PageFieldStrings(b, k, n - 1)
         \o (IF Add(RecordStart(b, k, n - 1), 48) <= PageEnd(b, k)
             THEN << [ name   |-> FieldString(b, k, n - 1, 20),
                       value  |-> FieldString(b, k, n - 1, 28),
                       domain |-> FieldString(b, k, n - 1, 16),
                       path   |-> FieldString(b, k, n - 1, 24) ] >>
             ELSE << >>)

\* page k has the page signature at its start in the file
SignatureAt(b, k) ==
    /\ PageStart(b, k) + 4 <= PageEnd(b, k)
    /\ SubSeq(b, PageStart(b, k) + 1, PageStart(b, k) + 4) = << 0, 0, 1, 0 >>

(***************************************************************************)
(* C23: the entries of a page's offset table count from the start of the   *)
(* page slice and the four string offsets of a record count from the start *)
(* of the record; the slice of page i starts at 8 + 4 * N plus the         *)
(* declared lengths of pages 0 .. i-1, with no padding.                    *)
(***************************************************************************)
C23_OffsetBases ==
    \A n \in 1..Len(pageLog) :
        /\ pageLog[n].index = n - 1
        /\ pageLog[n].from = Min(PageStart(buffer, n - 1), Len(buffer))
        /\ pageLog[n].len = PageEnd(buffer, n - 1) - pageLog[n].from
        /\ (pageLog[n].end = "returned" /\ SignatureAt(buffer, n - 1)) =>
             StringsOfAll(pageLog[n].cookies)
               = PageFieldStrings(buffer, n - 1,
                     readUInt32LE(buffer, PageStart(buffer, n - 1) + 4))

\* the second record of the second page of a two-page file was decoded: its
\* page, its record and its strings all start away from position 0
C23_Witness ==
    /\ pc = "done"
    /\ result.state = "fulfilled"
    /\ Len(pageLog) = 2
    /\ pageLog[1].len > 0
    /\ pageLog[2].end = "returned"
    /\ Len(pageLog[2].cookies) = 2
    /\ RecordStart(buffer, 1, 1) > PageStart(buffer, 1) + 48
    /\ FieldStart(buffer, 1, 1, 20) > RecordStart(buffer, 1, 1)
    /\ pageLog[2].cookies[2].name # << >>
    /\ pageLog[2].cookies[2].name = FieldString(buffer, 1, 1, 20)

(***************************************************************************)
(* The bytes after the last declared page                                   *)
(***************************************************************************)
\* where the last declared page ends: the header and all declared lengths
DeclaredEnd(b) == PageStart(b, DeclaredPages(b))

\* what may follow the last page: nothing, a checksum and footer, other
\* bytes, a whole further page
Trailers ==
    { << >>,
      << 0, 0, 0, 0, 0, 0, 0, 0 >>,
      << 7, 7, 7, 7, 7, 7, 7, 7 >>,
      << 255 >>,
      PageBytes(PageShape(TRUE, << "ok" >>, 0)) }

(***************************************************************************)
(* C24: the bytes after the last declared page do not influence the        *)
(* result: a buffer that is identical to the file up to the end of the     *)
(* last declared page and differs only after it (having no trailing bytes  *)
(* included) parses to the same outcome.                                    *)
(***************************************************************************)
C24_TrailerIgnored ==
    ( /\ pc = "done"
      /\ file.exists
      /\ HeaderComplete(buffer)
      /\ DeclaredEnd(buffer) <= Len(buffer) )
    => \A t \in Trailers :
         result = parseBinaryCookies(Prefix(buffer, DeclaredEnd(buffer)) \o t)

\* a file with eight bytes after its last page was parsed to cookies
C24_Witness ==
    /\ pc = "done"
    /\ file.exists
    /\ HeaderComplete(buffer)
    /\ DeclaredPages(buffer) = 2
    /\ Len(buffer) = DeclaredEnd(buffer) + 8
    /\ \E n \in (DeclaredEnd(buffer) + 1)..Len(buffer) : buffer[n] # 0
    /\ result.state = "fulfilled"
    /\ Len(result.value) >= 2

(***************************************************************************)
(* The order of the result                                                  *)
(***************************************************************************)
\* the cookies of the records of a page, by position in its offset table
CookiesInTableOrder(slice) ==
    IF HasSignature(slice)
    THEN ExpectedCookies("fields", slice, DeclaredRecords(slice))
    ELSE << >>

\* the cookies of the first n pages, page after page
RECURSIVE CookiesInPageOrder(_)
CookiesInPageOrder(n) ==
    IF n = 0 THEN << >>
    ELSE CookiesInPageOrder(n - 1) \o CookiesInTableOrder(SliceOf(pageLog[n]))

\* entry k of the slice is skipped, with a kept entry before and one after it
SkippedBetween(slice, k) ==
    /\ ~FieldsInside(slice, EntryOffset(slice, k))
    /\ \E before \in 0..(k - 1) : FieldsInside(slice, EntryOffset(slice, before))
    /\ \E after \in (k + 1)..(DeclaredRecords(slice) - 1) :
         FieldsInside(slice, EntryOffset(slice, after))

(***************************************************************************)
(* C26: the cookies of the result are ordered by page index and, within a  *)
(* page, by position in the page's record-offset table; the records that   *)
(* are skipped leave the relative order of the others unchanged.           *)
(***************************************************************************)
C26_ResultInFileOrder ==
    /\ pc = "pages" => cookies = CookiesInPageOrder(Len(pageLog))
    /\ (pc = "done" /\ result.state = "fulfilled") =>
         /\ Len(pageLog) = pageCount
         /\ result.value = CookiesInPageOrder(pageCount)

\* a two-page file was parsed, both pages gave cookies, the first cookie is
\* not the last, and a record between two kept ones was skipped
C26_Witness ==
    /\ pc = "done"
    /\ result.state = "fulfilled"
    /\ Len(pageLog) = 2
    /\ pageLog[1].cookies # << >>
    /\ pageLog[2].cookies # << >>
    /\ pageLog[1].cookies # pageLog[2].cookies
    /\ result.value[1] # result.value[Len(result.value)]
    /\ \E n \in 1..2 :
         \E k \in 0..(DeclaredRecords(SliceOf(pageLog[n])) - 1) :
             SkippedBetween(SliceOf(pageLog[n]), k)

(***************************************************************************)
(* Subsequences                                                             *)
(***************************************************************************)
\* a is b with some elements left out: the elements of a, unchanged and in
\* their order, are among those of b
RECURSIVE IsSubsequence(_, _)
IsSubsequence(a, b) ==
    IF a = << >> THEN TRUE
    ELSE IF b = << >> THEN FALSE
    ELSE IF Head(a) = Head(b) THEN IsSubsequence(Tail(a), Tail(b))
    ELSE IsSubsequence(a, Tail(b))

(***************************************************************************)
(* C27: domain filtering only selects: what importSafariCookies returns is *)
(* an order-preserving subsequence of the unfiltered parse result, and     *)
(* each retained cookie is unchanged field for field (its domain keeps its *)
(* original letter case).                                                   *)
(***************************************************************************)
C27_FilterOnlySelects ==
    \A c \in Calls :
        (calls[c].at = "done" /\ calls[c].parsed.state = "fulfilled")
        => /\ calls[c].returned.state = "fulfilled"
           /\ IsSubsequence(calls[c].returned.value, calls[c].parsed.value)
           /\ IsSubsequence(calls[c].returned.value,
                            parseBinaryCookies(fs[PathOf(c)].bytes).value)

\* the six-cookie file was filtered by "example.com": notexample.com, between
\* two retained cookies, is dropped and Sub.EXAMPLE.com is returned as stored
C27_Witness ==
    \E c \in Calls :
        /\ calls[c].at = "done"
        /\ calls[c].options.domain
             = Given(<< 101, 120, 97, 109, 112, 108, 101, 46, 99, 111, 109 >>)
        /\ Len(calls[c].parsed.value) = 6
        /\ Len(calls[c].returned.value) = 4
        /\ calls[c].returned.value[2] = calls[c].parsed.value[2]
        /\ calls[c].returned.value[3] = calls[c].parsed.value[4]
        /\ calls[c].returned.value[4] = calls[c].parsed.value[6]
        /\ calls[c].returned.value[4].domain
             = << 83, 117, 98, 46, 69, 88, 65, 77, 80, 76, 69, 46, 99, 111, 109 >>

(***************************************************************************)
(* C21: the close command succeeds in every state of the ClaudeBrowser.    *)
(* On one that was never launched or is closed already it returns ok true  *)
(* and changes nothing; after it on a launched one browser, context and    *)
(* page are all null; so a second close finds nothing to do.  (The call    *)
(* browser.close() of the library is taken to resolve: a rejection of it   *)
(* is the library's failure and is returned as ok false.)                   *)
(***************************************************************************)
C21_CloseSucceedsInEveryState ==
    [][(/\ reply' # reply
        /\ reply'.cmd = "close"
        /\ reply'.error # LibraryError)
       => /\ reply'.out = "returned"
          /\ reply'.ok
          /\ reply'.before = StateNow
          /\ browser = Null => UNCHANGED << browser, context, page >>
          /\ browser' = Null /\ context' = Null /\ page' = Null]_vars

\* close has answered ok true on a launched ClaudeBrowser, which now has
\* browser, context and page null
C21_Witness ==
    /\ reply.cmd = "close"
    /\ reply.out = "returned"
    /\ reply.ok
    /\ \A n \in 1..3 : reply.before[n] # Null
    /\ StateNow = << Null, Null, Null >>

(***************************************************************************)
(* launch(), newPage() and close() of a ClaudeBrowser, browser.js 29-45,    *)
(* 220-227 and 307-316 (browser.ts 20-38 and 133-138), as the steps between *)
(* their awaits.  A handle of Playwright is written as the number of the    *)
(* browser it belongs to, and that number is the index of the call that     *)
(* launched the browser.  A call on a browser that has been closed rejects; *)
(* any other call resolves or rejects.                                      *)
(***************************************************************************)
\* the calls and tool handlers a behaviour starts
MaxTasks == 3

\* a call or handler: the tool it serves ("none" for a direct call), the
\* object it works on, where it is, the browser its pending library call is on
Task(tool, obj, where, on) == [ tool |-> tool, obj |-> obj, at |-> where, on |-> on ]

\* the awaits of launch()
LaunchAwaits == { "webkit.launch", "newContext", "context.newPage" }

\* all the awaits of library calls
LibraryAwaits == LaunchAwaits \cup { "newPage", "browser.close" }

\* where a task goes on when its launch() has returned: ensureLaunched and
\* the launch tool set the flag (mcp.ts 31 and 110), a direct call is done
AfterLaunch(tool) == IF tool = "none" THEN "done" ELSE "setLaunched"

\* where a task goes on when its close() has returned: the launch and close
\* tools clear the flag (mcp.ts 94 and 570), a direct call is done
AfterClose(tool) == IF tool = "none" THEN "done" ELSE "clearLaunched"

\* what a step of the session leaves alone
besideSession ==
    << parserVars, recordVars, importVars, browserVars, networkVars, commandVars >>

\* launch() is called on object o: it runs up to the await of webkit.launch
StartLaunch(tool, o) == Task(tool, o, "webkit.launch", Null)

\* close() is called on object o: lines 221-222, it awaits browser.close() of
\* this.browser, or returns at once when there is none
StartClose(tool, o) ==
    IF objects[o].browser # Null
    THEN Task(tool, o, "browser.close", objects[o].browser)
    ELSE Task(tool, o, AfterClose(tool), Null)

\* line 30: webkit.launch resolves, this.browser is assigned, and
\* this.browser.newContext is called
WebkitLaunched(t) ==
    /\ tasks[t].at = "webkit.launch"
    /\ objects' = [objects EXCEPT ![tasks[t].obj].browser = t]
    /\ tasks' = [tasks EXCEPT ![t].at = "newContext", ![t].on = t]
    /\ UNCHANGED << besideSession, closed, launched, current >>

\* lines 31-37: newContext resolves, this.context is assigned, and
\* this.context.newPage is called
ContextMade(t) ==
    /\ tasks[t].at = "newContext"
    /\ tasks[t].on \notin closed
    /\ objects' = [objects EXCEPT ![tasks[t].obj].context = tasks[t].on]
    /\ tasks' = [tasks EXCEPT ![t].at = "context.newPage"]
    /\ UNCHANGED << besideSession, closed, launched, current >>

\* lines 37-41: newPage resolves, this.page is assigned, launch() returns
PageMade(t) ==
    /\ tasks[t].at = "context.newPage"
    /\ tasks[t].on \notin closed
    /\ objects' = [objects EXCEPT ![tasks[t].obj].page = tasks[t].on]
    /\ tasks' = [tasks EXCEPT ![t].at = AfterLaunch(tasks[t].tool), ![t].on = Null]
    /\ UNCHANGED << besideSession, closed, launched, current >>

\* lines 311-315: the newPage of newPage() resolves, this.page is assigned
NewPageMade(t) ==
    /\ tasks[t].at = "newPage"
    /\ tasks[t].on \notin closed
    /\ objects' = [objects EXCEPT ![tasks[t].obj].page = tasks[t].on]
    /\ tasks' = [tasks EXCEPT ![t].at = "done", ![t].on = Null]
    /\ UNCHANGED << besideSession, closed, launched, current >>

\* lines 222-225: browser.close resolves, the browser is closed, and the
\* three fields are set to null
BrowserClosed(t) ==
    /\ tasks[t].at = "browser.close"
    /\ closed' = closed \cup { tasks[t].on }
    /\ objects' = [objects EXCEPT ![tasks[t].obj] = NewObject]
    /\ tasks' = [tasks EXCEPT ![t].at = AfterClose(tasks[t].tool), ![t].on = Null]
    /\ UNCHANGED << besideSession, launched, current >>

\* the library call a task awaits rejects: the method throws, and with it
\* the handler that awaits the method
LibraryRejects(t) ==
    /\ tasks[t].at \in LibraryAwaits
    /\ tasks' = [tasks EXCEPT ![t].at = "threw", ![t].on = Null]
    /\ UNCHANGED << besideSession, objects, closed, launched, current >>

(***************************************************************************)
(* LifecycleSpec: one ClaudeBrowser, and launch(), newPage() and close()    *)
(* called on it at any time                                                 *)
(***************************************************************************)
LifecycleInit ==
    /\ SessionIdle
    /\ NetworkIdle
    /\ CommandIdle
    /\ ParserIdle
    /\ RecordIdle
    /\ ImportIdle
    /\ BrowserIdle

\* launch() is called
CallLaunch ==
    /\ Len(tasks) < MaxTasks
    /\ tasks' = Append(tasks, StartLaunch("none", 1))
    /\ UNCHANGED << besideSession, objects, closed, launched, current >>

\* newPage() is called: lines 308-311, it throws when there is no context
\* and else awaits this.context.newPage()
CallNewPage ==
    /\ Len(tasks) < MaxTasks
    /\ tasks' = Append(tasks,
                       IF objects[1].context = Null
                       THEN Task("none", 1, "threw", Null)
                       ELSE Task("none", 1, "newPage", objects[1].context))
    /\ UNCHANGED << besideSession, objects, closed, launched, current >>

\* close() is called
CallClose ==
    /\ Len(tasks) < MaxTasks
    /\ tasks' = Append(tasks, StartClose("none", 1))
    /\ UNCHANGED << besideSession, objects, closed, launched, current >>

LifecycleNext ==
    \/ CallLaunch
    \/ CallNewPage
    \/ CallClose
    \/ \E t \in DOMAIN tasks : WebkitLaunched(t)
    \/ \E t \in DOMAIN tasks : ContextMade(t)
    \/ \E t \in DOMAIN tasks : PageMade(t)
    \/ \E t \in DOMAIN tasks : NewPageMade(t)
    \/ \E t \in DOMAIN tasks : BrowserClosed(t)
    \/ \E t \in DOMAIN tasks : LibraryRejects(t)

LifecycleSpec == LifecycleInit /\ [][LifecycleNext]_vars

\* the fields of object o are nested: a page only with a context, a context
\* only with a browser
Nested(o) ==
    /\ objects[o].page # Null => objects[o].context # Null
    /\ objects[o].context # Null => objects[o].browser # Null

(***************************************************************************)
(* C30: in every reachable state of a ClaudeBrowser, under any             *)
(* interleaving of launch(), newPage() and close() calls (a close() that   *)
(* runs while a launch() or newPage() is awaiting included), a non-null    *)
(* page implies a non-null context and a non-null context implies a        *)
(* non-null browser; no page handle survives a completed close().          *)
(***************************************************************************)
C30_FieldsNestedUnderInterleaving ==
    /\ Nested(1)
    /\ objects[1].page \notin closed

(***************************************************************************)
(* McpSpec: the tool handlers of the MCP server, mcp.ts, run concurrently: *)
(* a tool that starts with ensureLaunched() (wait, lines 555-559), the     *)
(* launch tool (lines 90-111) and the close tool (lines 567-573)            *)
(***************************************************************************)
\* the ClaudeBrowser objects a behaviour makes
MaxObjects == 2

McpInit == LifecycleInit

\* lines 556 and 28-30: the wait tool is called; ensureLaunched reads
\* launched and, when it is false, calls browser.launch()
ToolWait ==
    /\ Len(tasks) < MaxTasks
    /\ tasks' = Append(tasks,
                       IF launched THEN Task("ensure", current, "body", Null)
                       ELSE StartLaunch("ensure", current))
    /\ UNCHANGED << besideSession, objects, closed, launched, current >>

\* lines 31 and 110: browser.launch() has returned, launched = true; the
\* launch tool returns its result, ensureLaunched returns to its tool
SetLaunched(t) ==
    /\ tasks[t].at = "setLaunched"
    /\ launched' = TRUE
    /\ tasks' = [tasks EXCEPT ![t].at = IF tasks[t].tool = "ensure" THEN "body" ELSE "done"]
    /\ UNCHANGED << besideSession, objects, closed, current >>

\* lines 557-558 and browser.ts 128-131: browser.wait(ms) on the object
\* that browser is bound to now; ensurePage() throws when it has no page
ToolBody(t) ==
    /\ tasks[t].at = "body"
    /\ tasks' = [tasks EXCEPT ![t].at = IF objects[current].page = Null
                                        THEN "threw" ELSE "done",
                              ![t].obj = current]
    /\ UNCHANGED << besideSession, objects, closed, launched, current >>

\* lines 98-109: the options are set, browser = new ClaudeBrowser(), and
\* browser.launch() is called on the new object
Relaunch(tool) == StartLaunch(tool, Len(objects) + 1)

\* lines 90-109: the launch tool is called; when launched is true it
\* first awaits browser.close()
ToolLaunch ==
    /\ Len(tasks) < MaxTasks
    /\ IF launched
       THEN /\ tasks' = Append(tasks, StartClose("launch", current))
            /\ UNCHANGED << objects, current >>
       ELSE /\ Len(objects) < MaxObjects
            /\ tasks' = Append(tasks, Relaunch("launch"))
            /\ objects' = Append(objects, NewObject)
            /\ current' = Len(objects) + 1
    /\ UNCHANGED << besideSession, closed, launched >>

\* lines 567-572: the close tool is called; when launched is true it
\* awaits browser.close(), else it returns
ToolClose ==
    /\ Len(tasks) < MaxTasks
    /\ tasks' = Append(tasks,
                       IF launched THEN StartClose("close", current)
                       ELSE Task("close", current, "done", Null))
    /\ UNCHANGED << besideSession, objects, closed, launched, current >>

\* lines 94 and 570: browser.close() has returned, launched = false; the
\* close tool returns, the launch tool goes on with lines 98-109
ClearLaunched(t) ==
    /\ tasks[t].at = "clearLaunched"
    /\ launched' = FALSE
    /\ IF tasks[t].tool = "launch"
       THEN /\ Len(objects) < MaxObjects
            /\ tasks' = [tasks EXCEPT ![t] = Relaunch("launch")]
            /\ objects' = Append(objects, NewObject)
            /\ current' = Len(objects) + 1
       ELSE /\ tasks' = [tasks EXCEPT ![t].at = "done"]
            /\ UNCHANGED << objects, current >>
    /\ UNCHANGED << besideSession, closed >>

McpNext ==
    \/ ToolWait
    \/ ToolLaunch
    \/ ToolClose
    \/ \E t \in DOMAIN tasks : SetLaunched(t)
    \/ \E t \in DOMAIN tasks : ClearLaunched(t)
    \/ \E t \in DOMAIN tasks : ToolBody(t)
    \/ \E t \in DOMAIN tasks : WebkitLaunched(t)
    \/ \E t \in DOMAIN tasks : ContextMade(t)
    \/ \E t \in DOMAIN tasks : PageMade(t)
    \/ \E t \in DOMAIN tasks : BrowserClosed(t)
    \/ \E t \in DOMAIN tasks : LibraryRejects(t)

McpSpec == McpInit /\ [][McpNext]_vars

\* task t is in a browser.launch() that ensureLaunched called
InEnsuredLaunch(t) == tasks[t].tool = "ensure" /\ tasks[t].at \in LaunchAwaits

\* task u is in a launch() on the same object as task t
LaunchInProgressBeside(t, u) ==
    u # t /\ tasks[u].at \in LaunchAwaits /\ tasks[u].obj = tasks[t].obj

\* no launch() that ensureLaunched started runs beside another launch() of
\* the same object
NoSecondLaunchInProgress ==
    \A t \in DOMAIN tasks :
        InEnsuredLaunch(t) => \A u \in DOMAIN tasks : ~LaunchInProgressBeside(t, u)

\* the flag implies a page
LaunchedHasPage == launched => objects[current].page # Null

(***************************************************************************)
(* C28: in the MCP server the browser is launched at most once per         *)
(* session: under every interleaving of concurrent tool handlers (the      *)
(* launch and close tools included) no browser.launch() that               *)
(* ensureLaunched started runs while another launch() of the same object   *)
(* is in progress; and whenever launched is true the current browser       *)
(* object has a non-null page.                                              *)
(***************************************************************************)
C28_LaunchedAtMostOnce == NoSecondLaunchInProgress /\ LaunchedHasPage

(***************************************************************************)
(* NetworkSpec: setupNetworkListener, browser.js 171-219, and getNetwork,   *)
(* 334-351.  An entry is the object the 'request' handler makes; it is      *)
(* written as the index of its request.                                     *)
(***************************************************************************)
\* the requests the page makes
MaxRequests == 3

\* what a step of the listeners leaves alone
besideNetwork ==
    << parserVars, recordVars, importVars, browserVars, sessionVars, commandVars >>

NetworkInit == LifecycleInit

\* a request of the page: its key, where it is, and the entry its
\* 'response' handler holds over its await
Request(key, where, entry) == [ key |-> key, at |-> where, entry |-> entry ]

\* lines 173-182: 'request': an entry is made and set in the map under the key
OnRequest(url, method) ==
    /\ Len(requests) < MaxRequests
    /\ requests' = Append(requests, Request(RequestKey(url, method), "sent", NoEntry))
    /\ pendingRequests' =
         [pendingRequests EXCEPT ![RequestKey(url, method)] = Len(requests) + 1]
    /\ UNCHANGED << besideNetwork, networkEntries, pushed >>

\* lines 183-198: 'response': the entry under the key is looked up and, if
\* there is one, filled in, and response.body() is awaited
OnResponse(r) ==
    /\ requests[r].at = "sent"
    /\ requests' = [requests EXCEPT
                      ![r].at = IF pendingRequests[requests[r].key] = NoEntry
                                THEN "responded" ELSE "body",
                      ![r].entry = pendingRequests[requests[r].key]]
    /\ UNCHANGED << besideNetwork, pendingRequests, networkEntries, pushed >>

\* lines 195-203: the await of response.body() ends, with the body or with
\* an exception that is caught; the entry is pushed, the key is deleted
BodyRead(r) ==
    /\ requests[r].at = "body"
    /\ networkEntries' = Append(networkEntries, requests[r].entry)
    /\ pushed' = Append(pushed, requests[r].entry)
    /\ pendingRequests' = [pendingRequests EXCEPT ![requests[r].key] = NoEntry]
    /\ requests' = [requests EXCEPT ![r].at = "responded"]
    /\ UNCHANGED besideNetwork

\* lines 206-218: 'requestfailed': the entry under the key, if there is one,
\* is pushed and the key is deleted
OnRequestFailed(r) ==
    /\ requests[r].at = "sent"
    /\ LET entry == pendingRequests[requests[r].key]
       IN  IF entry = NoEntry
           THEN UNCHANGED << pendingRequests, networkEntries, pushed >>
           ELSE /\ networkEntries' = Append(networkEntries, entry)
                /\ pushed' = Append(pushed, entry)
                /\ pendingRequests' = [pendingRequests EXCEPT ![requests[r].key] = NoEntry]
    /\ requests' = [requests EXCEPT ![r].at = "failed", ![r].entry = pendingRequests[requests[r].key]]
    /\ UNCHANGED besideNetwork

\* lines 334-347: getNetwork(filter, clear) returns the entries and, with
\* clear, empties this.networkEntries
GetNetwork(clear) ==
    /\ networkEntries # << >>
    /\ networkEntries' = IF clear THEN << >> ELSE networkEntries
    /\ UNCHANGED << besideNetwork, requests, pendingRequests, pushed >>

NetworkNext ==
    \/ \E url \in Urls, method \in Methods : OnRequest(url, method)
    \/ \E r \in DOMAIN requests : OnResponse(r)
    \/ \E r \in DOMAIN requests : BodyRead(r)
    \/ \E r \in DOMAIN requests : OnRequestFailed(r)
    \/ \E clear \in BOOLEAN : GetNetwork(clear)

NetworkSpec == NetworkInit /\ [][NetworkNext]_vars

\* how often entry e has been pushed
TimesPushed(e) == Cardinality({ n \in DOMAIN pushed : pushed[n] = e })

\* request r is completed: its response has been handled to the end, or
\* its failure has
Completed(r) == requests[r].at \in { "responded", "failed" }

\* when all requests of the page differ in URL or method, each completed
\* request has its own entry pushed once
CapturedOnceWithDistinctKeys ==
    (\A r \in DOMAIN requests : \A q \in DOMAIN requests :
         q # r => requests[q].key # requests[r].key)
    => \A r \in DOMAIN requests : Completed(r) => TimesPushed(r) = 1

\* no entry is pushed twice
NoEntryPushedTwice == \A r \in DOMAIN requests : TimesPushed(r) <= 1

(***************************************************************************)
(* C29: network capture records every completed request exactly once:      *)
(* each request that receives a response or fails adds exactly one entry   *)
(* to networkEntries, also when two requests with the same URL and method  *)
(* are in flight at the same time; no entry is added twice.                 *)
(***************************************************************************)
C29_EveryCompletedRequestOnce ==
    /\ \A r \in DOMAIN requests : Completed(r) => TimesPushed(r) = 1
    /\ NoEntryPushedTwice

(***************************************************************************)
(* ImportCommandSpec: executeCommand({cmd: 'import', ...}), browser.js      *)
(* 891-892, which returns the promise of handleImportCommand, 673-703.  The *)
(* call of importSafariCookies it awaits is call 1 of the import calls.     *)
(***************************************************************************)
\* the call of importSafariCookies that the command makes
CommandCall == 1

\* where handleImportCommand is, and what its promise settled with
Importing(source, where, ok, imported, error) ==
    [ source |-> source, at |-> where, ok |-> ok, imported |-> imported, error |-> error ]

\* the sources a command names
Sources == { "safari", "chrome" }

\* the ClaudeBrowser is launched, or not, and the options of the command are
\* those of the call
ImportCommandInit ==
    /\ fs \in FileSystems
    /\ \E o \in OptionSets : calls = [c \in Calls |-> NewCall(o)]
    /\ \/ browser = Null /\ context = Null /\ page = Null /\ made = 0
       \/ browser = 1 /\ context = 2 /\ page = 3 /\ made = 3
    /\ launching = "no"
    /\ reply = NoReply
    /\ CommandIdle
    /\ SessionIdle
    /\ NetworkIdle
    /\ ParserIdle
    /\ RecordIdle

\* what a step of the command leaves alone
besideCommand == << parserVars, recordVars, browserVars, sessionVars, networkVars >>

\* lines 674-678 and 700-702: the context is read; without one the handler
\* throws, with one and the source safari importSafariCookies is called,
\* with another source ok false is returned
HandleImport(source) ==
    /\ importing.at = "idle"
    /\ importing' =
         IF context = Null
         THEN Importing(source, "threw", FALSE, 0, NotLaunched)
         ELSE IF source = "safari"
         THEN Importing(source, "safari", FALSE, 0, "")
         ELSE Importing(source, "returned", FALSE, 0, "Unknown import source")
    /\ UNCHANGED << besideCommand, importVars, jar >>

\* line 678: importSafariCookies runs, part_010 751-780, step by step
CommandImportCall == importing.at = "safari" /\ ImportCall(CommandCall)
CommandImportReadFile == importing.at = "safari" /\ ImportReadFile(CommandCall)
CommandImportParse == importing.at = "safari" /\ ImportParse(CommandCall)
CommandImportReturn == importing.at = "safari" /\ ImportReturn(CommandCall)

\* lines 678-698: the await of importSafariCookies ends; with no cookie
\* imported 0 is returned, else the cookies are converted and handed to
\* context.addCookies in one call, and their number is returned
ImportSettles(lib) ==
    /\ importing.at = "safari"
    /\ calls[CommandCall].at = "done"
    /\ LET returned == calls[CommandCall].returned
           source   == importing.source
       IN  IF returned.state = "rejected"
           THEN /\ importing' = Importing(source, "threw", FALSE, 0, returned.error)
                /\ UNCHANGED jar
           ELSE IF Len(returned.value) = 0
           THEN /\ importing' = Importing(source, "returned", TRUE, 0, "")
                /\ UNCHANGED jar
           ELSE /\ jar' = Append(jar, [n \in 1..Len(returned.value) |->
                                         toPlaywrightCookie(returned.value[n])])
                /\ importing' =
                     IF lib = "throws"
                     THEN Importing(source, "threw", FALSE, 0, LibraryError)
                     ELSE Importing(source, "returned", TRUE, Len(returned.value), "")
    /\ UNCHANGED << besideCommand, importVars >>

ImportCommandNext ==
    \/ \E source \in Sources : HandleImport(source)
    \/ CommandImportCall
    \/ CommandImportReadFile
    \/ CommandImportParse
    \/ CommandImportReturn
    \/ \E lib \in LibraryOutcomes : ImportSettles(lib)

ImportCommandSpec == ImportCommandInit /\ [][ImportCommandNext]_vars

\* the command has ended
ImportEnded == importing.at \in { "returned", "threw" }

\* the cookies importSafariCookies returned to the command
ImportedCookies == calls[CommandCall].returned.value

\* on a launched ClaudeBrowser: the cookies importSafariCookies returned are
\* handed over, converted, in one addCookies call, and counted; with no
\* cookie nothing is added and imported is 0
ImportOnLaunchedBrowser ==
    (/\ ImportEnded
     /\ context # Null
     /\ importing.source = "safari"
     /\ calls[CommandCall].returned.state = "fulfilled"
     /\ importing.error # LibraryError)
    => /\ importing.at = "returned"
       /\ importing.ok
       /\ importing.imported = Len(ImportedCookies)
       /\ IF ImportedCookies = << >>
          THEN jar = << >>
          ELSE jar = << [n \in 1..Len(ImportedCookies) |->
                          toPlaywrightCookie(ImportedCookies[n])] >>

\* on a ClaudeBrowser that is not launched the cookie file is not read and
\* nothing is added
ImportNotLaunchedReadsNothing ==
    (ImportEnded /\ context = Null)
    => /\ calls[CommandCall] = NewCall(calls[CommandCall].options)
       /\ jar = << >>

(***************************************************************************)
(* C25: an import command with source safari on a launched browser hands   *)
(* to the context, in a single addCookies call, exactly the cookies that   *)
(* importSafariCookies returned for the profile and domain, each converted *)
(* by toPlaywrightCookie, and reports imported as their number; with no    *)
(* cookie it reports ok with imported 0 and adds nothing; on a browser     *)
(* that is not launched it returns ok false and the cookie file is never   *)
(* read.                                                                    *)
(***************************************************************************)
C25_ImportHandsOverTheCookies ==
    /\ ImportOnLaunchedBrowser
    /\ ImportNotLaunchedReadsNothing
    /\ (ImportEnded /\ context = Null)
         => (importing.at = "returned" /\ ~importing.ok)

====
